---- MODULE Spec2Model ----
(***************************************************************************)
(* Element memory and progress computation of mss-ai:                      *)
(*   app/services/element_memory_service.py  (ElementLifecycle,            *)
(*       ElementMemoryService)                                             *)
(*   app/services/progress_calculator.py     (ProgressCalculator)          *)
(*   app/services/geometric_validator.py     (GeometricValidator)          *)
(*   app/db_models/dynamodb.py               (ProjectElementMemory)        *)
(*                                                                         *)
(* Python dicts are functions whose DOMAIN is the set of keys present, so  *)
(* that dict.get(key, default) is Get below.  Visible counts are non-      *)
(* negative integers.  The persistence table is the variable mem; the      *)
(* service calls are sequential (one whole call per step).                 *)
(***************************************************************************)
EXTENDS Integers, Sequences, FiniteSets, TLC

\* ------------------------------------------------------------------ bounds
MaxCount == 2       \* largest visible count of one detection
MaxDetected == 2    \* longest detection list of one analysis
MaxExpected == 2    \* longest expected (BIM) element list
MaxTime == 3        \* number of service calls in one behaviour
MaxAnalyses == 2    \* number of analyses the orchestrator runs in one behaviour
MaxElements == 4    \* longest element list handed to the geometric validator

\* ------------------------------------------------------------- input sets
Projects == {"p1", "p2"}

\* spellings of element types that callers send
Spellings == {"column", "Column", "wall", "scaffold", "door", "crane"}

\* str.lower() on the spellings above and on the default ""
Lower(s) == CASE s \in {"Column", "COLUMN"} -> "column"
              [] s = "Beam" -> "beam"
              [] s = "SCAFFOLD" -> "scaffold"
              [] s = "Door" -> "door"
              [] s \in {"Crane", "CRANE"} -> "crane"
              [] OTHER -> s

\* canonical (lower-cased) element types a record can have; "" is the type
\* of a detection that has no element_type
Types == {Lower(s) : s \in Spellings} \cup {""}

Counts == 0..MaxCount

\* ------------------------------------------------------- ElementLifecycle
PERMANENT == "permanent"
TEMPORARY == "temporary"
FINISHING == "finishing"
UNKNOWN == "unknown"

permanent_types == {"column", "beam", "slab", "foundation", "roof",
                    "wall", "structure", "footing", "pile"}

temporary_types == {"scaffold", "formwork", "equipment", "fence",
                    "barrier", "support", "temporary"}

finishing_types == {"door", "window", "covering", "railing",
                    "stair", "curtainwall", "panel", "floor"}

\* variant: the membership tests look at the type as it was spelled
classify_CaseSensitive(element_type) ==
    IF element_type \in permanent_types THEN PERMANENT
    ELSE IF element_type \in temporary_types THEN TEMPORARY
    ELSE IF element_type \in finishing_types THEN FINISHING
    ELSE UNKNOWN

classify(element_type) ==
    LET element_type_lower == Lower(element_type) IN
    IF element_type_lower \in permanent_types THEN PERMANENT
    ELSE IF element_type_lower \in temporary_types THEN TEMPORARY
    ELSE IF element_type_lower \in finishing_types THEN FINISHING
    ELSE UNKNOWN

\* ---------------------------------------------------------- ElementStatus
VISIBLE == "visible"
HIDDEN == "hidden"
REMOVED == "removed"

\* ------------------------------------------------------------- dict.get()
Get(d, k, default) == IF k \in DOMAIN d THEN d[k] ELSE default

Max(a, b) == IF a >= b THEN a ELSE b

\* --------------------------------------------------------------- the state
VARIABLES
    mem,        \* the table: [project, element_type] -> record or NoRecord
    now,        \* the clock the call timestamps are read from
    lastOp,     \* the last call: its name, arguments and return value
    lastSeen,   \* per key, the visible count of its latest detection (> 0)
    inflight    \* per concurrent caller, the position of its update_memory
                \* call and the record object the call holds

vars == <<mem, now, lastOp, lastSeen, inflight>>

\* callers whose calls may interleave
Callers == {"a1", "a2"}

\* no call in progress
IdleCall == [pc |-> "idle"]

Keys == Projects \X Types

NoRecord == [memory_id |-> "none"]

NoNotes == [text |-> "null", covered |-> <<>>]

\* variant: the record is constructed without classifying its type
NewRecord_Unclassified(project_id, element_type, count, timestamp) ==
    [ memory_id |-> <<project_id, Lower(element_type)>>,
      project_id |-> project_id,
      element_type |-> Lower(element_type),
      lifecycle |-> UNKNOWN,
      first_detected_at |-> timestamp,
      last_seen_at |-> timestamp,
      max_count_seen |-> count,
      current_count |-> count,
      current_status |-> VISIBLE,
      times_detected |-> 1,
      times_hidden |-> 0,
      confidence_level |-> "medium",
      likely_covered_by |-> <<>>,
      notes |-> NoNotes ]

\* ProjectElementMemory(...) as get_or_create_memory constructs it
NewRecord(project_id, element_type, count, timestamp) ==
    [ memory_id |-> <<project_id, Lower(element_type)>>,
      project_id |-> project_id,
      element_type |-> Lower(element_type),
      lifecycle |-> classify(element_type),
      first_detected_at |-> timestamp,
      last_seen_at |-> timestamp,
      max_count_seen |-> count,
      current_count |-> count,
      current_status |-> VISIBLE,
      times_detected |-> 1,
      times_hidden |-> 0,
      confidence_level |-> "medium",
      likely_covered_by |-> <<>>,
      notes |-> NoNotes ]

\* get_or_create_memory: the table after the call (the record is saved when
\* it had to be created)
get_or_create_memory(m, project_id, element_type, count, timestamp) ==
    LET memory_id == <<project_id, Lower(element_type)>> IN
    IF m[memory_id] # NoRecord THEN m
    ELSE [m EXCEPT ![memory_id] =
              NewRecord(project_id, element_type, count, timestamp)]

\* variant: the visible branch stores the count without taking the maximum
SeenUpdate_NoMax(memory, current_count, timestamp) ==
    [memory EXCEPT !.last_seen_at = timestamp,
                   !.times_detected = @ + 1,
                   !.max_count_seen = current_count,
                   !.current_count = current_count,
                   !.current_status = VISIBLE]

\* variant: the visible branch stores the count and leaves max_count_seen
SeenUpdate_KeepMax(memory, current_count, timestamp) ==
    [memory EXCEPT !.last_seen_at = timestamp,
                   !.times_detected = @ + 1,
                   !.current_count = current_count,
                   !.current_status = VISIBLE]

\* variant: the visible branch leaves current_status as it was
SeenUpdate_KeepStatus(memory, current_count, timestamp) ==
    [memory EXCEPT !.last_seen_at = timestamp,
                   !.times_detected = @ + 1,
                   !.max_count_seen = Max(@, current_count),
                   !.current_count = current_count]

\* the branch of update_memory for a visible element
SeenUpdate(memory, current_count, timestamp) ==
    [memory EXCEPT !.last_seen_at = timestamp,
                   !.times_detected = @ + 1,
                   !.max_count_seen = Max(@, current_count),
                   !.current_count = current_count,
                   !.current_status = VISIBLE]

\* the not-visible branch with its three lifecycle cases as parameters:
\* zeroPermanent resets a permanent record's count, zeroTemporary resets a
\* temporary record's count, otherStatus is the status of the last case
NotSeenWith(memory, covering_elements, zeroPermanent, zeroTemporary, otherStatus) ==
    LET hid == [memory EXCEPT !.times_hidden = @ + 1] IN
    IF hid.lifecycle = PERMANENT THEN
        [hid EXCEPT !.current_status = HIDDEN,
                    !.current_count = IF zeroPermanent THEN 0 ELSE @,
                    !.likely_covered_by = IF covering_elements # <<>>
                                          THEN covering_elements ELSE @,
                    !.confidence_level = IF covering_elements # <<>>
                                         THEN "high" ELSE "medium",
                    !.notes = IF covering_elements # <<>>
                              THEN [text |-> "Provavelmente coberto por",
                                    covered |-> covering_elements]
                              ELSE [text |-> "Nao visivel mas estrutura permanente mantida",
                                    covered |-> <<>>]]
    ELSE IF hid.lifecycle = TEMPORARY THEN
        [hid EXCEPT !.current_status = REMOVED,
                    !.current_count = IF zeroTemporary THEN 0 ELSE @,
                    !.notes = [text |-> "Elemento temporario removido (esperado)",
                               covered |-> <<>>]]
    ELSE
        [hid EXCEPT !.current_status = otherStatus,
                    !.confidence_level = "low",
                    !.notes = [text |-> "Status incerto - requer revisao",
                               covered |-> <<>>]]

\* variant: a permanent element that is not visible loses its count
NotSeenUpdate_ZeroPermanent(memory, covering_elements) ==
    NotSeenWith(memory, covering_elements, TRUE, TRUE, HIDDEN)

\* variant: a temporary element that is not visible keeps its count
NotSeenUpdate_KeepTemporary(memory, covering_elements) ==
    NotSeenWith(memory, covering_elements, FALSE, FALSE, HIDDEN)

\* variant: an element of the last case is marked removed
NotSeenUpdate_OtherRemoved(memory, covering_elements) ==
    NotSeenWith(memory, covering_elements, FALSE, TRUE, REMOVED)

\* the branch of update_memory for an element that is not visible
NotSeenUpdate(memory, covering_elements) ==
    LET hid == [memory EXCEPT !.times_hidden = @ + 1] IN
    IF hid.lifecycle = PERMANENT THEN
        IF covering_elements # <<>> THEN
            [hid EXCEPT !.current_status = HIDDEN,
                        !.likely_covered_by = covering_elements,
                        !.confidence_level = "high",
                        !.notes = [text |-> "Provavelmente coberto por",
                                   covered |-> covering_elements]]
        ELSE
            [hid EXCEPT !.current_status = HIDDEN,
                        !.confidence_level = "medium",
                        !.notes = [text |-> "Nao visivel mas estrutura permanente mantida",
                                   covered |-> <<>>]]
    ELSE IF hid.lifecycle = TEMPORARY THEN
        [hid EXCEPT !.current_status = REMOVED,
                    !.current_count = 0,
                    !.notes = [text |-> "Elemento temporario removido (esperado)",
                               covered |-> <<>>]]
    ELSE
        [hid EXCEPT !.current_status = HIDDEN,
                    !.confidence_level = "low",
                    !.notes = [text |-> "Status incerto - requer revisao",
                               covered |-> <<>>]]

\* update_memory: the table after the call and the returned dict.
\* covering_elements None and [] are both <<>> (both are falsy in the code).
update_memory(m, project_id, element_type, current_count, timestamp, covering_elements) ==
    LET m1 == get_or_create_memory(m, project_id, element_type, current_count, timestamp)
        memory_id == <<project_id, Lower(element_type)>>
        memory == m1[memory_id]
        updated == IF current_count > 0
                   THEN SeenUpdate(memory, current_count, timestamp)
                   ELSE NotSeenUpdate(memory, covering_elements)
    IN [ mem |-> [m1 EXCEPT ![memory_id] = updated],
         result |->
           [ element_type |-> element_type,
             lifecycle |-> updated.lifecycle,
             previous_count |-> memory.current_count,
             current_count_visible |-> current_count,
             effective_count |-> updated.current_count,
             previous_status |-> memory.current_status,
             current_status |-> updated.current_status,
             max_count_seen |-> updated.max_count_seen,
             confidence_level |-> updated.confidence_level,
             notes |-> IF updated.notes = NoNotes THEN [text |-> "", covered |-> <<>>]
                       ELSE updated.notes,
             contributes_to_progress |-> updated.current_status # REMOVED ] ]

\* ------------------------------------------- process_analysis_with_memory
\* ProjectElementMemory.project_id_index.query(project_id): the records of
\* the project in the order of the index's range key element_type
TypeOrder == <<"", "column", "crane", "door", "scaffold", "wall">>

RECURSIVE QueryFrom(_, _, _)
QueryFrom(m, project_id, i) ==
    IF i > Len(TypeOrder) THEN <<>>
    ELSE IF m[<<project_id, TypeOrder[i]>>] # NoRecord
         THEN <<TypeOrder[i]>> \o QueryFrom(m, project_id, i + 1)
         ELSE QueryFrom(m, project_id, i + 1)

\* variant: a failed query is not caught as an empty memory
get_project_memory_Unguarded(m, project_id, queryOk) ==
    QueryFrom(m, project_id, 1)

\* get_project_memory: the keys of the returned dict in iteration order; the
\* empty dict when the query raises
get_project_memory(m, project_id, queryOk) ==
    IF queryOk THEN QueryFrom(m, project_id, 1) ELSE <<>>

COVERERS == {"wall", "covering", "slab", "roof", "panel"}

SeqContains(s, x) == \E i \in 1..Len(s) : s[i] = x

\* the grouping loop: detected_by_type as its keys in insertion order and its
\* values, and covering_types
RECURSIVE GroupDetected(_, _, _)
GroupDetected(detected_elements, i, acc) ==
    IF i > Len(detected_elements) THEN acc
    ELSE LET elem == detected_elements[i]
             elem_type == Lower(Get(elem, "element_type", ""))
             count_visible == Get(elem, "count_visible", 1)
         IN GroupDetected(detected_elements, i + 1,
              [ keys |-> IF SeqContains(acc.keys, elem_type) THEN acc.keys
                         ELSE Append(acc.keys, elem_type),
                val |-> [t \in DOMAIN acc.val \cup {elem_type} |->
                            IF t = elem_type THEN count_visible ELSE acc.val[t]],
                covering_types |-> IF elem_type \in COVERERS
                                   THEN Append(acc.covering_types, elem_type)
                                   ELSE acc.covering_types ])

EmptyGroup == [keys |-> <<>>, val |-> <<>>, covering_types |-> <<>>]

\* the loop over the detected types
RECURSIVE DetectedLoop(_, _, _, _, _)
DetectedLoop(acc, project_id, grp, timestamp, i) ==
    IF i > Len(grp.keys) THEN acc
    ELSE LET elem_type == grp.keys[i]
             count == grp.val[elem_type]
             u == update_memory(acc.mem, project_id, elem_type, count, timestamp,
                                IF count = 0 THEN grp.covering_types ELSE <<>>)
         IN DetectedLoop(
              [ mem |-> u.mem,
                memory_updates |-> Append(acc.memory_updates, u.result),
                adjusted_elements |-> Append(acc.adjusted_elements,
                    [ element_type |-> elem_type,
                      count_visible |-> count,
                      effective_count |-> u.result.effective_count,
                      status |-> u.result.current_status,
                      contributes_to_progress |-> u.result.contributes_to_progress ]) ],
              project_id, grp, timestamp, i + 1)

\* variant: the types that were not detected are updated but never appended
\* to adjusted_elements
RECURSIVE MemoryLoop_Dropping(_, _, _, _, _, _)
MemoryLoop_Dropping(acc, project_id, memory_keys, grp, timestamp, i) ==
    IF i > Len(memory_keys) THEN acc
    ELSE LET elem_type == memory_keys[i] IN
         IF SeqContains(grp.keys, elem_type)
         THEN MemoryLoop_Dropping(acc, project_id, memory_keys, grp, timestamp, i + 1)
         ELSE LET u == update_memory(acc.mem, project_id, elem_type, 0, timestamp,
                                     grp.covering_types)
              IN MemoryLoop_Dropping(
                   [ mem |-> u.mem,
                     memory_updates |-> Append(acc.memory_updates, u.result),
                     adjusted_elements |-> acc.adjusted_elements ],
                   project_id, memory_keys, grp, timestamp, i + 1)

\* variant: the types that were not detected are updated without the
\* covering types of the round
RECURSIVE MemoryLoop_NoCovering(_, _, _, _, _, _)
MemoryLoop_NoCovering(acc, project_id, memory_keys, grp, timestamp, i) ==
    IF i > Len(memory_keys) THEN acc
    ELSE LET elem_type == memory_keys[i] IN
         IF SeqContains(grp.keys, elem_type)
         THEN MemoryLoop_NoCovering(acc, project_id, memory_keys, grp, timestamp, i + 1)
         ELSE LET u == update_memory(acc.mem, project_id, elem_type, 0, timestamp, <<>>)
              IN MemoryLoop_NoCovering(
                   [ mem |-> u.mem,
                     memory_updates |-> Append(acc.memory_updates, u.result),
                     adjusted_elements |->
                        IF u.result.contributes_to_progress
                        THEN Append(acc.adjusted_elements,
                               [ element_type |-> elem_type,
                                 count_visible |-> 0,
                                 effective_count |-> u.result.effective_count,
                                 status |-> u.result.current_status,
                                 contributes_to_progress |-> TRUE ])
                        ELSE acc.adjusted_elements ],
                   project_id, memory_keys, grp, timestamp, i + 1)

\* the loop over the types in memory that were not detected
RECURSIVE MemoryLoop(_, _, _, _, _, _)
MemoryLoop(acc, project_id, memory_keys, grp, timestamp, i) ==
    IF i > Len(memory_keys) THEN acc
    ELSE LET elem_type == memory_keys[i] IN
         IF SeqContains(grp.keys, elem_type)
         THEN MemoryLoop(acc, project_id, memory_keys, grp, timestamp, i + 1)
         ELSE LET u == update_memory(acc.mem, project_id, elem_type, 0, timestamp,
                                     grp.covering_types)
              IN MemoryLoop(
                   [ mem |-> u.mem,
                     memory_updates |-> Append(acc.memory_updates, u.result),
                     adjusted_elements |->
                        IF u.result.contributes_to_progress
                        THEN Append(acc.adjusted_elements,
                               [ element_type |-> elem_type,
                                 count_visible |-> 0,
                                 effective_count |-> u.result.effective_count,
                                 status |-> u.result.current_status,
                                 contributes_to_progress |-> TRUE ])
                        ELSE acc.adjusted_elements ],
                   project_id, memory_keys, grp, timestamp, i + 1)

\* process_analysis_with_memory: the table after the call and the returned dict
process_analysis_with_memory(m, project_id, detected_elements, timestamp, queryOk) ==
    LET memory_keys == get_project_memory(m, project_id, queryOk)
        grp == GroupDetected(detected_elements, 1, EmptyGroup)
        a1 == DetectedLoop([mem |-> m, memory_updates |-> <<>>, adjusted_elements |-> <<>>],
                           project_id, grp, timestamp, 1)
        a2 == MemoryLoop(a1, project_id, memory_keys, grp, timestamp, 1)
    IN [ mem |-> a2.mem,
         result |-> [ adjusted_elements |-> a2.adjusted_elements,
                      memory_updates |-> a2.memory_updates,
                      covering_elements_detected |-> grp.covering_types ] ]

\* the table after an update_memory call whose memory.save() raises: site
\* "create" is the save of a new record (line 93), site "update" the save of
\* the updated record (line 154), whose changes are then not stored
update_memory_save_raises(m, project_id, element_type, current_count, timestamp, site) ==
    IF site = "create" THEN m
    ELSE get_or_create_memory(m, project_id, element_type, current_count, timestamp)

\* the elements of a sequence before the first x
RECURSIVE Before(_, _, _)
Before(seq, x, i) ==
    IF i > Len(seq) \/ seq[i] = x THEN <<>>
    ELSE <<seq[i]>> \o Before(seq, x, i + 1)

\* process_analysis_with_memory when the save of failed_type's record raises:
\* neither loop catches the exception, so the call stops there and raises;
\* the types updated earlier (processed) stay updated
process_analysis_save_raises(m, project_id, detected_elements, timestamp, queryOk, failed_type, site) ==
    LET memory_keys == get_project_memory(m, project_id, queryOk)
        grp == GroupDetected(detected_elements, 1, EmptyGroup)
        start == [mem |-> m, memory_updates |-> <<>>, adjusted_elements |-> <<>>]
    IN IF SeqContains(grp.keys, failed_type)
       THEN LET done == Before(grp.keys, failed_type, 1)
                a1 == DetectedLoop(start, project_id, [grp EXCEPT !.keys = done],
                                   timestamp, 1)
            IN [ mem |-> update_memory_save_raises(a1.mem, project_id, failed_type,
                            grp.val[failed_type], timestamp, site),
                 processed |-> done ]
       ELSE LET a1 == DetectedLoop(start, project_id, grp, timestamp, 1)
                done == Before(memory_keys, failed_type, 1)
                a2 == MemoryLoop(a1, project_id, done, grp, timestamp, 1)
            IN [ mem |-> update_memory_save_raises(a2.mem, project_id, failed_type,
                            0, timestamp, site),
                 processed |-> grp.keys \o SelectSeq(done,
                                  LAMBDA t : ~SeqContains(grp.keys, t)) ]

\* --------------------------------------------------- clear_project_memory
\* the loop of clear_project_memory: _memory.delete() succeeds for the first
\* failAt records of the query and raises on the next one, if there is one
\* variant: count is incremented before the delete that raises
RECURSIVE ClearLoop_CountFirst(_, _, _, _, _)
ClearLoop_CountFirst(acc, project_id, memories, failAt, i) ==
    IF i > Len(memories) THEN acc
    ELSE IF i > failAt THEN [acc EXCEPT !.count = @ + 1]
    ELSE ClearLoop_CountFirst(
                   [ mem |-> [acc.mem EXCEPT ![<<project_id, memories[i]>>] = NoRecord],
                     count |-> acc.count + 1 ],
                   project_id, memories, failAt, i + 1)

RECURSIVE ClearLoop(_, _, _, _, _)
ClearLoop(acc, project_id, memories, failAt, i) ==
    IF i > Len(memories) \/ i > failAt THEN acc
    ELSE ClearLoop([ mem |-> [acc.mem EXCEPT ![<<project_id, memories[i]>>] = NoRecord],
                     count |-> acc.count + 1 ],
                   project_id, memories, failAt, i + 1)

\* clear_project_memory: the table after the call and the returned count; a
\* query that raises deletes nothing
clear_project_memory(m, project_id, queryOk, failAt) ==
    IF ~queryOk THEN [mem |-> m, count |-> 0]
    ELSE ClearLoop([mem |-> m, count |-> 0], project_id,
                   QueryFrom(m, project_id, 1), failAt, 1)

\* ------------------------------------------------------ ProgressCalculator
\* Percentages are integers in hundredths of a percent (round(x, 2) * 100);
\* mapping_ratio is in thousandths (round(x, 3) * 1000).

\* round() of num / den to the nearest integer, a tie going to the even one
RoundDiv(num, den) ==
    LET q == num \div den
        r == num % den
    IN IF 2 * r < den THEN q
       ELSE IF 2 * r > den THEN q + 1
       ELSE IF q % 2 = 0 THEN q ELSE q + 1

\* variant: the visible count is summed instead of the effective count
RECURSIVE SumEffective_Visible(_, _)
SumEffective_Visible(elements, i) ==
    IF i > Len(elements) THEN 0
    ELSE Get(elements[i], "count_visible", 1) + SumEffective_Visible(elements, i + 1)

RECURSIVE SumEffective(_, _)
SumEffective(elements, i) ==
    IF i > Len(elements) THEN 0
    ELSE Get(elements[i], "effective_count", 1) + SumEffective(elements, i + 1)

\* compute_visual_built(...)["total_count"]
compute_visual_built(detected_elements) == SumEffective(detected_elements, 1)

ElemType(elem) == Lower(Get(elem, "element_type", "unknown"))

RECURSIVE CountExpected(_, _, _)
CountExpected(all_elements, t, i) ==
    IF i > Len(all_elements) THEN 0
    ELSE (IF ElemType(all_elements[i]) = t THEN 1 ELSE 0)
         + CountExpected(all_elements, t, i + 1)

RECURSIVE BuiltOfType(_, _, _)
BuiltOfType(detected_elements, t, i) ==
    IF i > Len(detected_elements) THEN 0
    ELSE (IF ElemType(detected_elements[i]) = t
          THEN Get(detected_elements[i], "effective_count", 1) ELSE 0)
         + BuiltOfType(detected_elements, t, i + 1)

RECURSIVE SumOver(_, _)
SumOver(f, S) ==
    IF S = {} THEN 0
    ELSE LET x == CHOOSE y \in S : TRUE IN f[x] + SumOver(f, S \ {x})

\* variant: a mapping ratio of exactly 0.5 counts as weak
mapping_is_weak_Inclusive(total_built_from_categories, total_built) ==
    IF total_built > 0
    THEN 2 * total_built_from_categories <= total_built
    ELSE TRUE

\* mapping_ratio < 0.5, the ratio being 0.0 when total_built is 0
mapping_is_weak(total_built_from_categories, total_built) ==
    IF total_built > 0
    THEN 2 * total_built_from_categories < total_built
    ELSE TRUE

\* variant: the per-category entries are not cleared
aggregate_category_Uncleared(by_category, total_built, total_expected) ==
    [k \in DOMAIN by_category \cup {"elementos_detectados"} |->
       IF k = "elementos_detectados"
       THEN [ built |-> total_built,
              expected |-> total_expected,
              progress_percent |->
                 IF total_expected > 0
                 THEN RoundDiv(total_built * 10000, total_expected) ELSE 0 ]
       ELSE by_category[k]]

\* progress_by_category after clear() and the aggregate entry
aggregate_category(by_category, total_built, total_expected) ==
    [k \in {"elementos_detectados"} |->
       [ built |-> total_built,
         expected |-> total_expected,
         progress_percent |->
            IF total_expected > 0
            THEN RoundDiv(total_built * 10000, total_expected) ELSE 0 ]]

\* a / b: its rounded value (num and den are a and b scaled to the unit of
\* the result), or the ZeroDivisionError Python raises when b is 0
Divide(num, den) ==
    IF den = 0 THEN [ raised |-> TRUE, exception |-> "ZeroDivisionError" ]
    ELSE [ raised |-> FALSE, value |-> RoundDiv(num, den) ]

Value(v) == [ raised |-> FALSE, value |-> v ]

\* progress_percent of a category (line 107)
category_percent(built_count, expected_count) ==
    IF expected_count > 0 THEN Divide(built_count * 10000, expected_count)
    ELSE Value(0)

\* variant: the ratio is taken whatever total_built is
mapping_ratio_Unguarded(total_built_from_categories, total_built) ==
    Divide(total_built_from_categories * 1000, total_built)

\* mapping_ratio (line 116), in thousandths
mapping_ratio(total_built_from_categories, total_built) ==
    IF total_built > 0 THEN Divide(total_built_from_categories * 1000, total_built)
    ELSE Value(0)

\* overall_progress of either mode (lines 137 and 150)
overall_percent(built, total_expected) ==
    IF total_expected > 0 THEN Divide(built * 10000, total_expected)
    ELSE Value(0)

\* the returned dict, or the record of the exception a division raised
compute_progress_report(detected_elements, all_elements) ==
    LET total_expected == Len(all_elements)
        total_built == compute_visual_built(detected_elements)
        expected_types == {ElemType(all_elements[i]) : i \in 1..Len(all_elements)}
        expected_by_type == [t \in expected_types |-> CountExpected(all_elements, t, 1)]
        built_count == [t \in expected_types |-> BuiltOfType(detected_elements, t, 1)]
        total_built_from_categories == SumOver(built_count, expected_types)
        percent == [t \in expected_types |->
                       category_percent(built_count[t], expected_by_type[t])]
        ratio == mapping_ratio(total_built_from_categories, total_built)
        weak == mapping_is_weak(total_built_from_categories, total_built)
        overall == IF weak THEN overall_percent(total_built, total_expected)
                   ELSE overall_percent(total_built_from_categories, total_expected)
    IN IF (\E t \in expected_types : percent[t].raised) \/ ratio.raised
       THEN [ raised |-> TRUE, exception |-> "ZeroDivisionError" ]
       ELSE IF overall.raised
       THEN [ raised |-> TRUE, exception |-> overall.exception ]
       ELSE LET by_category == [t \in expected_types |->
                   [ built |-> built_count[t],
                     expected |-> expected_by_type[t],
                     progress_percent |-> percent[t].value ]]
            IN [ overall_progress |-> overall.value,
                 progress_by_category |->
                   IF weak
                   THEN aggregate_category(by_category, total_built, total_expected)
                   ELSE by_category,
                 total_built |-> total_built,
                 total_expected |-> total_expected,
                 mapping_ratio |-> ratio.value,
                 progress_mode |-> IF weak THEN "weak_matching" ELSE "category_based",
                 detected_count |-> Len(detected_elements) ]

\* variant: the no-BIM case looks at the elements chosen for the report
calculate_progress_metrics_ElementsToUse(detected_elements, all_elements, adjusted_elements) ==
    LET elements_to_use ==
          IF adjusted_elements # <<>> THEN adjusted_elements ELSE detected_elements
    IN IF all_elements = <<>>
       THEN [ overall_progress |-> IF elements_to_use # <<>> THEN 10000 ELSE 0,
              detected_count |-> Len(detected_elements),
              expected_count |-> 0,
              progress_mode |-> "no_bim" ]
       ELSE compute_progress_report(elements_to_use, all_elements)

\* adjusted_elements None and [] are both <<>> (both are falsy in the code)
calculate_progress_metrics(detected_elements, all_elements, adjusted_elements) ==
    IF all_elements = <<>>
    THEN [ overall_progress |-> IF detected_elements # <<>> THEN 10000 ELSE 0,
           detected_count |-> Len(detected_elements),
           expected_count |-> 0,
           progress_mode |-> "no_bim" ]
    ELSE compute_progress_report(
           IF adjusted_elements # <<>> THEN adjusted_elements ELSE detected_elements,
           all_elements)

\* sum(1 for e in elements if e.get("status") == status)
RECURSIVE CountStatus(_, _, _)
CountStatus(elements, status, i) ==
    IF i > Len(elements) THEN 0
    ELSE (IF Get(elements[i], "status", "none") = status THEN 1 ELSE 0)
         + CountStatus(elements, status, i + 1)

\* variant: the empty list is not returned early
calculate_overall_progress_Unguarded(detected_elements) ==
    Divide((2 * CountStatus(detected_elements, "completed", 1)
            + CountStatus(detected_elements, "in_progress", 1)) * 5000,
           Len(detected_elements))

\* calculate_overall_progress: (completed + 0.5 * in_progress) / total * 100
calculate_overall_progress(detected_elements) ==
    IF detected_elements = <<>> THEN Value(0)
    ELSE Divide((2 * CountStatus(detected_elements, "completed", 1)
                 + CountStatus(detected_elements, "in_progress", 1)) * 5000,
                Len(detected_elements))

\* the timeline of calculate_progress_evolution from the i-th analysis on; an
\* entry is the record of the exception when its metrics raised
RECURSIVE Timeline(_, _, _)
Timeline(analyses, all_elements, i) ==
    IF i > Len(analyses) THEN <<>>
    ELSE LET analysis == analyses[i]
             detected_elements == Get(analysis, "detected_elements", <<>>)
             progress_metrics ==
                 calculate_progress_metrics(detected_elements, all_elements, <<>>)
         IN << IF "raised" \in DOMAIN progress_metrics THEN progress_metrics
               ELSE [ date |-> Get(analysis, "analyzed_at", ""),
                      analysis_id |-> Get(analysis, "analysis_id", "None"),
                      overall_progress |-> Get(progress_metrics, "overall_progress", 0),
                      progress_mode |-> Get(progress_metrics, "progress_mode", "unknown"),
                      detected_count |-> Len(detected_elements),
                      progress_by_category |->
                          Get(progress_metrics, "progress_by_category", <<>>) ] >>
            \o Timeline(analyses, all_elements, i + 1)

calculate_progress_evolution(analyses, all_elements) ==
    LET timeline == Timeline(analyses, all_elements, 1)
        n == Len(timeline)
    IN IF \E i \in 1..n : "raised" \in DOMAIN timeline[i]
       THEN [ raised |-> TRUE, exception |-> "ZeroDivisionError" ]
       ELSE [ timeline |-> timeline,
              total_analyses |-> n,
              progress_rate |->
                 IF n >= 2
                 THEN timeline[n].overall_progress - timeline[1].overall_progress
                 ELSE 0,
              current_progress |-> IF n > 0 THEN timeline[n].overall_progress ELSE 0 ]

\* the text of an alert is the tuple of its fixed part and the values it is
\* formatted from
NotIdentifiedAlert(element) ==
    << element.element_type, Get(element, "name", "sem nome"),
       "nao identificado na imagem" >>

DeviationAlert(element) ==
    << "Desvio em", element.element_type, element.deviation >>

\* the first loop of identify_alerts, from the i-th expected element on
RECURSIVE MissingLoop(_, _, _)
MissingLoop(all_elements, detected_ids, i) ==
    IF i > Len(all_elements) THEN <<>>
    ELSE (IF all_elements[i].element_id \notin detected_ids
          THEN <<NotIdentifiedAlert(all_elements[i])>> ELSE <<>>)
         \o MissingLoop(all_elements, detected_ids, i + 1)

\* the second loop, from the i-th detected element on; "" is falsy
RECURSIVE DeviationLoop(_, _)
DeviationLoop(detected_elements, i) ==
    IF i > Len(detected_elements) THEN <<>>
    ELSE (IF Get(detected_elements[i], "deviation", "") # ""
          THEN <<DeviationAlert(detected_elements[i])>> ELSE <<>>)
         \o DeviationLoop(detected_elements, i + 1)

\* variant: the deviations are collected first
identify_alerts_DeviationsFirst(detected_elements, project_data) ==
    LET all_elements == Get(project_data, "elements", <<>>)
        detected_ids == {Get(detected_elements[i], "element_id", "None") :
                            i \in 1..Len(detected_elements)}
    IN DeviationLoop(detected_elements, 1)
       \o MissingLoop(all_elements, detected_ids, 1)

identify_alerts(detected_elements, project_data) ==
    LET all_elements == Get(project_data, "elements", <<>>)
        detected_ids == {Get(detected_elements[i], "element_id", "None") :
                            i \in 1..Len(detected_elements)}
    IN MissingLoop(all_elements, detected_ids, 1)
       \o DeviationLoop(detected_elements, 1)

\* ------------------------------------------------------ GeometricValidator
\* Issues are dicts: a key an issue does not have is not in its DOMAIN.  The
\* message of an issue is the tuple of the names its text is formatted from.
\* confidence_penalty is an integer in hundredths.

STRUCTURAL_DEPENDENCIES ==
    [t \in {"beam", "slab"} |->
       IF t = "beam" THEN <<"column", "wall">> ELSE <<"beam", "wall", "column">>]

\* the keys of STRUCTURAL_DEPENDENCIES in the order of the dict
DependentTypes == <<"beam", "slab">>

REQUIRES_FOUNDATION == <<"column", "wall">>

\* the keys of CONSTRUCTION_SEQUENCE in the order of the dict
SequenceTypes == <<"foundation", "footing", "pile", "column", "wall",
                   "beam", "slab", "roof", "finishing">>

CONSTRUCTION_SEQUENCE ==
    [t \in {SequenceTypes[i] : i \in 1..Len(SequenceTypes)} |->
       CASE t \in {"foundation", "footing", "pile"} -> 1
         [] t \in {"column", "wall"} -> 2
         [] t \in {"beam", "slab"} -> 3
         [] t = "roof" -> 4
         [] t = "finishing" -> 5]

\* any(x in types for x in xs)
AnyIn(xs, types) == \E i \in 1..Len(xs) : xs[i] \in types

TypesDetected(detected_elements) ==
    {Lower(detected_elements[i].element_type) : i \in 1..Len(detected_elements)}

\* one iteration of the loop of _validate_structural_support
SupportIssue(elem_type, types_detected) ==
    IF elem_type \in types_detected
       /\ ~AnyIn(STRUCTURAL_DEPENDENCIES[elem_type], types_detected)
    THEN << [ rule |-> "missing_structural_support",
              severity |-> "HIGH",
              element_type |-> elem_type,
              message |-> <<elem_type>>,
              likely_hallucination |-> TRUE ] >>
    ELSE <<>>

RECURSIVE SupportLoop(_, _)
SupportLoop(types_detected, i) ==
    IF i > Len(DependentTypes) THEN <<>>
    ELSE SupportIssue(DependentTypes[i], types_detected)
         \o SupportLoop(types_detected, i + 1)

validate_structural_support(types_detected) == SupportLoop(types_detected, 1)

validate_foundation(types_detected, strict_mode) ==
    LET has_vertical == AnyIn(REQUIRES_FOUNDATION, types_detected)
        has_foundation ==
            {"foundation", "footing", "pile", "slab"} \cap types_detected # {}
    IN IF has_vertical /\ ~has_foundation
       THEN << [ rule |-> "missing_foundation",
                 severity |-> IF strict_mode THEN "HIGH" ELSE "MEDIUM",
                 message |-> <<>>,
                 likely_hallucination |-> FALSE ] >>
       ELSE <<>>
\* the keys of status_by_type in the order of the dict: the lower-cased types
\* in the order of their first element
RECURSIVE StatusKeys(_, _, _)
StatusKeys(elements, i, acc) ==
    IF i > Len(elements) THEN acc
    ELSE LET t == Lower(elements[i].element_type)
         IN StatusKeys(elements, i + 1,
                       IF SeqContains(acc, t) THEN acc ELSE Append(acc, t))

\* status_by_type[t], as the set of its members
StatusesOf(elements, t) ==
    {Lower(elements[i].status) :
        i \in {n \in 1..Len(elements) : Lower(elements[n].element_type) = t}}

\* the inner loop of _validate_construction_sequence, from the j-th key of
\* CONSTRUCTION_SEQUENCE on
RECURSIVE EarlierLoop(_, _, _)
EarlierLoop(elements, elem_type, j) ==
    IF j > Len(SequenceTypes) THEN <<>>
    ELSE LET earlier_type == SequenceTypes[j]
             current_order == Get(CONSTRUCTION_SEQUENCE, elem_type, 999)
             earlier_statuses == StatusesOf(elements, earlier_type)
         IN (IF /\ CONSTRUCTION_SEQUENCE[earlier_type] < current_order
                /\ SeqContains(StatusKeys(elements, 1, <<>>), earlier_type)
                /\ "not_started" \in earlier_statuses
                /\ "completed" \notin earlier_statuses
             THEN << [ rule |-> "invalid_sequence",
                       severity |-> "HIGH",
                       message |-> <<elem_type, earlier_type>>,
                       likely_hallucination |-> TRUE ] >>
             ELSE <<>>)
            \o EarlierLoop(elements, elem_type, j + 1)

\* the outer loop, from the i-th key of status_by_type on
RECURSIVE SequenceLoop(_, _, _)
SequenceLoop(elements, keys, i) ==
    IF i > Len(keys) THEN <<>>
    ELSE (IF "completed" \notin StatusesOf(elements, keys[i]) THEN <<>>
          ELSE EarlierLoop(elements, keys[i], 1))
         \o SequenceLoop(elements, keys, i + 1)

validate_construction_sequence(elements) ==
    SequenceLoop(elements, StatusKeys(elements, 1, <<>>), 1)

\* the number of issues of one severity
RECURSIVE CountSeverity(_, _, _)
CountSeverity(issues, severity, i) ==
    IF i > Len(issues) THEN 0
    ELSE (IF issues[i].severity = severity THEN 1 ELSE 0)
         + CountSeverity(issues, severity, i + 1)

Min(a, b) == IF a <= b THEN a ELSE b

\* variant: the MEDIUM issues are not counted
confidence_penalty_HighOnly(issues) ==
    Min(CountSeverity(issues, "HIGH", 1) * 15, 50)

\* line 46, in hundredths
confidence_penalty(issues) ==
    Min(CountSeverity(issues, "HIGH", 1) * 15
        + CountSeverity(issues, "MEDIUM", 1) * 5, 50)

\* the issues the set comprehension of _identify_suspicious selects
IsFlagged(issue) ==
    issue.severity = "HIGH" /\ Get(issue, "likely_hallucination", FALSE)

\* _identify_suspicious: i["element_type"] raises KeyError on a selected issue
\* that has no such key
identify_suspicious(elements, issues) ==
    LET flagged == {i \in 1..Len(issues) : IsFlagged(issues[i])}
    IN IF \E i \in flagged : "element_type" \notin DOMAIN issues[i]
       THEN [ raised |-> TRUE, exception |-> "KeyError" ]
       ELSE LET suspicious_types == {issues[i].element_type : i \in flagged}
                Suspicious(e) == /\ Lower(e.element_type) \in suspicious_types
                                 /\ e.confidence \in {"MEDIUM", "LOW"}
            IN [ raised |-> FALSE, value |-> SelectSeq(elements, Suspicious) ]

\* validate_elements: what it returns or raises, and the values of lines
\* 39-46 (locals), which are computed before _identify_suspicious is called
validate_elements(detected_elements, strict_mode) ==
    IF detected_elements = <<>>
    THEN [ raised |-> FALSE,
           locals |-> [ issues |-> <<>>, confidence_penalty |-> 0 ],
           result |-> [ is_plausible |-> TRUE,
                        issues |-> <<>>,
                        confidence_penalty |-> 0,
                        validated_elements |-> <<>>,
                        suspicious_elements |-> <<>> ] ]
    ELSE LET types_detected == TypesDetected(detected_elements)
             issues == validate_structural_support(types_detected)
                       \o validate_foundation(types_detected, strict_mode)
                       \o validate_construction_sequence(detected_elements)
             high_severity == CountSeverity(issues, "HIGH", 1)
             penalty == confidence_penalty(issues)
             suspicious == identify_suspicious(detected_elements, issues)
             NotSuspicious(e) ==
                \A n \in 1..Len(suspicious.value) : suspicious.value[n] # e
         IN IF suspicious.raised
            THEN [ raised |-> TRUE,
                   exception |-> suspicious.exception,
                   locals |-> [ issues |-> issues, confidence_penalty |-> penalty ] ]
            ELSE [ raised |-> FALSE,
                   locals |-> [ issues |-> issues, confidence_penalty |-> penalty ],
                   result |-> [ is_plausible |-> high_severity = 0,
                                issues |-> issues,
                                confidence_penalty |-> penalty,
                                validated_elements |->
                                    SelectSeq(detected_elements, NotSuspicious),
                                suspicious_elements |-> suspicious.value ] ]

\* ------------------------------------------------------- inputs of the calls
SeqsUpTo(S, n) == UNION {[1..k -> S] : k \in 0..n}

\* detections as the element matcher hands them over: mixed-case types, with
\* or without count_visible
DetectionElems ==
    {[element_type |-> "Column", count_visible |-> c] : c \in 1..MaxCount}
    \cup {[element_type |-> "wall"]}
    \cup {[element_type |-> "scaffold", count_visible |-> c] : c \in {0, MaxCount}}

DetectionLists == SeqsUpTo(DetectionElems, MaxDetected)

\* expected elements of the BIM model
ExpectedElems == {[element_type |-> t] : t \in {"Column", "scaffold"}}

ExpectedLists == SeqsUpTo(ExpectedElems, MaxExpected)

CoveringArgs == {<<>>, <<"wall">>}

\* detections of every lifecycle: permanent, permanent and coverer,
\* finishing, unknown
LifecycleElems ==
    {[element_type |-> t, count_visible |-> 1] : t \in {"Column", "door", "crane"}}
    \cup {[element_type |-> "wall"]}

LifecycleLists == SeqsUpTo(LifecycleElems, MaxDetected)

\* a detection that lacks element_type
MalformedElems == {[count_visible |-> 1]}

MalformedLists == SeqsUpTo(DetectionElems \cup MalformedElems, MaxDetected)

\* the two memory.save() calls of update_memory (lines 93 and 154)
SaveSites == {"create", "update"}

\* adjusted elements as process_analysis_with_memory returns them (the fields
\* the calculator reads)
AdjustedElems ==
    {[element_type |-> t, effective_count |-> c] : t \in {"column", "crane"}, c \in Counts}

AdjustedLists == SeqsUpTo(AdjustedElems, MaxDetected)

\* raw detections of the stored analyses
RawLists ==
    SeqsUpTo({[element_type |-> t] : t \in {"Column", "crane"}}, MaxDetected)

\* detected elements with a status, or without one
StatusLists ==
    SeqsUpTo({[element_type |-> "column", status |-> st] :
                 st \in {"completed", "in_progress", "not_started"}}
             \cup {[element_type |-> "column"]}, MaxDetected)

\* stored analyses, one of them without detected_elements
AnalysisRecords ==
    {[analysis_id |-> "a1", analyzed_at |-> "t1", detected_elements |-> d] : d \in RawLists}
    \cup {[analysis_id |-> "a0"]}

AnalysesLists == SeqsUpTo(AnalysisRecords, MaxAnalyses)

\* expected elements with an id, with or without a name
AlertExpectedElems ==
    {[element_id |-> id, element_type |-> "column", name |-> "P1"] : id \in {"e1", "e2"}}
    \cup {[element_id |-> id, element_type |-> "wall"] : id \in {"e1", "e2"}}

\* detected elements with or without an id, with a deviation, an empty one or
\* none
AlertDetectedElems ==
    {[element_id |-> "e1", element_type |-> "column", deviation |-> dv] :
        dv \in {"", "fora de prumo"}}
    \cup {[element_id |-> "e2", element_type |-> "wall"]}
    \cup {[element_type |-> "wall", deviation |-> "atrasado"]}

ProjectDatas ==
    {[elements |-> e] : e \in SeqsUpTo(AlertExpectedElems, MaxExpected)}
    \cup {[project_name |-> "obra"]}

\* families of spellings that differ only in letter case
CaseFamilies ==
    { {"column", "Column", "COLUMN"}, {"beam", "Beam"}, {"scaffold", "SCAFFOLD"},
      {"door", "Door"}, {"crane", "Crane", "CRANE"}, {"wall"}, {""} }

ClassifySpellings == UNION CaseFamilies

\* a DetectedElement, by the fields the validator reads
DetectedElement(element_type, status, confidence) ==
    [ element_type |-> element_type, status |-> status, confidence |-> confidence ]

\* well-formed detected elements: status and confidence are values the model
\* class accepts
ValidatorElems ==
    {DetectedElement("foundation", st, "HIGH") : st \in {"not_started", "completed"}}
    \cup {DetectedElement("footing", "not_started", "LOW")}
    \cup {DetectedElement("column", "completed", c) : c \in {"HIGH", "LOW"}}
    \cup {DetectedElement("Beam", "completed", c) : c \in {"HIGH", "MEDIUM", "LOW"}}
    \cup {DetectedElement("slab", "completed", c) : c \in {"HIGH", "LOW"}}

ValidatorLists == SeqsUpTo(ValidatorElems, MaxElements)

\* ------------------------------------------------------------------ actions
Init ==
    /\ mem = [k \in Keys |-> NoRecord]
    /\ now = 0
    /\ inflight = [c \in Callers |-> IdleCall]
    /\ lastOp = [op |-> "none"]
    /\ lastSeen = [k \in Keys |-> 0]

\* a caller runs update_memory
UpdateMemory(project_id, element_type, current_count, covering_elements) ==
    /\ now < MaxTime
    /\ LET u == update_memory(mem, project_id, element_type, current_count,
                              now + 1, covering_elements)
       IN /\ mem' = u.mem
          /\ lastOp' = [ op |-> "update_memory",
                         project_id |-> project_id,
                         element_type |-> element_type,
                         current_count |-> current_count,
                         result |-> u.result ]
    /\ now' = now + 1
    /\ UNCHANGED inflight
    /\ lastSeen' = IF current_count > 0
                   THEN [lastSeen EXCEPT ![<<project_id, Lower(element_type)>>] = current_count]
                   ELSE lastSeen

\* a caller runs update_memory; lastOp also keeps log, the element type and
\* the count of every update_memory call made so far
UpdateMemoryLogged(project_id, element_type, current_count, covering_elements) ==
    /\ now < MaxTime
    /\ LET u == update_memory(mem, project_id, element_type, current_count,
                              now + 1, covering_elements)
       IN /\ mem' = u.mem
          /\ lastOp' = [ op |-> "update_memory",
                         project_id |-> project_id,
                         element_type |-> element_type,
                         current_count |-> current_count,
                         result |-> u.result,
                         log |-> Append(Get(lastOp, "log", <<>>),
                                        [ element_type |-> Lower(element_type),
                                          current_count |-> current_count ]) ]
    /\ now' = now + 1
    /\ UNCHANGED inflight
    /\ lastSeen' = IF current_count > 0
                   THEN [lastSeen EXCEPT ![<<project_id, Lower(element_type)>>] = current_count]
                   ELSE lastSeen

\* a caller runs process_analysis_with_memory (timestamp omitted); queryOk
\* tells whether the project-wide query of get_project_memory succeeds
ProcessAnalysis(project_id, detected_elements, queryOk) ==
    /\ now < MaxTime
    /\ LET a == process_analysis_with_memory(mem, project_id, detected_elements,
                                             now + 1, queryOk)
           grp == GroupDetected(detected_elements, 1, EmptyGroup)
       IN /\ mem' = a.mem
          /\ lastOp' = [ op |-> "process_analysis_with_memory",
                         project_id |-> project_id,
                         detected_elements |-> detected_elements,
                         queryOk |-> queryOk,
                         raised |-> FALSE,
                         result |-> a.result ]
          /\ lastSeen' = [k \in Keys |->
                            IF k[1] = project_id /\ SeqContains(grp.keys, k[2])
                               /\ grp.val[k[2]] > 0
                            THEN grp.val[k[2]] ELSE lastSeen[k]]
    /\ now' = now + 1
    /\ UNCHANGED inflight

\* a caller runs process_analysis_with_memory and the save of failed_type's
\* record raises (site tells which save)
ProcessAnalysisSaveRaises(project_id, detected_elements, queryOk, failed_type, site) ==
    /\ now < MaxAnalyses
    /\ LET grp == GroupDetected(detected_elements, 1, EmptyGroup)
           memory_keys == get_project_memory(mem, project_id, queryOk)
       IN /\ SeqContains(grp.keys, failed_type) \/ SeqContains(memory_keys, failed_type)
          /\ (site = "create") => (mem[<<project_id, failed_type>>] = NoRecord)
          /\ LET a == process_analysis_save_raises(mem, project_id, detected_elements,
                                                  now + 1, queryOk, failed_type, site)
             IN /\ mem' = a.mem
                /\ lastOp' = [ op |-> "process_analysis_with_memory",
                               project_id |-> project_id,
                               detected_elements |-> detected_elements,
                               queryOk |-> queryOk,
                               raised |-> TRUE,
                               failed_type |-> failed_type,
                               processed |-> a.processed ]
                /\ lastSeen' = [k \in Keys |->
                                  IF k[1] = project_id /\ SeqContains(a.processed, k[2])
                                     /\ SeqContains(grp.keys, k[2]) /\ grp.val[k[2]] > 0
                                  THEN grp.val[k[2]] ELSE lastSeen[k]]
    /\ now' = now + 1
    /\ UNCHANGED inflight

\* a caller runs clear_project_memory; the query or the delete of record
\* number failAt + 1 may raise
ClearProjectMemory(project_id, queryOk, failAt) ==
    /\ now < MaxTime
    /\ LET c == clear_project_memory(mem, project_id, queryOk, failAt)
       IN /\ mem' = c.mem
          /\ lastOp' = [ op |-> "clear_project_memory",
                         project_id |-> project_id,
                         result |-> c.count ]
          /\ lastSeen' = [k \in Keys |-> IF c.mem[k] = NoRecord THEN 0 ELSE lastSeen[k]]
    /\ now' = now + 1
    /\ UNCHANGED inflight

\* the orchestrator reconciles the detections of one image with the memory
\* (analyze_construction_image, step 8)
Reconcile(project_id, detected_elements, queryOk) ==
    /\ now < MaxAnalyses
    /\ ProcessAnalysis(project_id, detected_elements, queryOk)

\* and computes the progress of the analysis it just reconciled (step 9)
CalculateProgressMetrics(all_elements) ==
    /\ lastOp.op = "process_analysis_with_memory"
    /\ lastOp' = [ op |-> "calculate_progress_metrics",
                   detected_elements |-> lastOp.detected_elements,
                   adjusted_elements |-> lastOp.result.adjusted_elements,
                   all_elements |-> all_elements,
                   result |-> calculate_progress_metrics(
                                 lastOp.detected_elements, all_elements,
                                 lastOp.result.adjusted_elements) ]
    /\ UNCHANGED <<mem, now, lastSeen, inflight>>

\* analyze_construction_image from step 7 on.  lastOp holds the locals of the
\* analysis in progress and calls, the collaborator calls it has made so far.
OrchestratorProjects ==
    {[project_id |-> "p1", elements |-> e] : e \in SeqsUpTo(AlertExpectedElems, 1)}
    \cup {[project_id |-> "p1"]}

\* step 7: the detections of the image are merged
MergeDetectionResults(project_data, detected_elements) ==
    /\ lastOp.op \in {"none", "identify_alerts"}
    /\ now < MaxAnalyses
    /\ lastOp' = [ op |-> "merge_detection_results",
                   project_data |-> project_data,
                   detected_elements |-> detected_elements,
                   calls |-> <<"merge_detection_results">> ]
    /\ UNCHANGED <<mem, now, lastSeen, inflight>>

\* step 8: the detections are reconciled with the memory of the project
ProcessWithMemory(queryOk) ==
    /\ lastOp.op = "merge_detection_results"
    /\ LET project_id == Get(lastOp.project_data, "project_id", "None")
           a == process_analysis_with_memory(mem, project_id, lastOp.detected_elements,
                                             now + 1, queryOk)
           grp == GroupDetected(lastOp.detected_elements, 1, EmptyGroup)
       IN /\ mem' = a.mem
          /\ lastOp' = [ op |-> "process_analysis_with_memory",
                         project_data |-> lastOp.project_data,
                         detected_elements |-> lastOp.detected_elements,
                         adjusted_elements |-> Get(a.result, "adjusted_elements", <<>>),
                         calls |-> Append(lastOp.calls, "process_analysis_with_memory") ]
          /\ lastSeen' = [k \in Keys |->
                            IF k[1] = project_id /\ SeqContains(grp.keys, k[2])
                               /\ grp.val[k[2]] > 0
                            THEN grp.val[k[2]] ELSE lastSeen[k]]
    /\ now' = now + 1
    /\ UNCHANGED inflight

\* step 9: the progress metrics are computed with the adjusted elements
ProgressMetrics ==
    /\ lastOp.op = "process_analysis_with_memory"
    /\ "calls" \in DOMAIN lastOp
    /\ lastOp' = [ op |-> "calculate_progress_metrics",
                   project_data |-> lastOp.project_data,
                   detected_elements |-> lastOp.detected_elements,
                   progress_metrics |-> calculate_progress_metrics(
                                           lastOp.detected_elements,
                                           Get(lastOp.project_data, "elements", <<>>),
                                           lastOp.adjusted_elements),
                   calls |-> Append(lastOp.calls, "calculate_progress_metrics") ]
    /\ UNCHANGED <<mem, now, lastSeen, inflight>>

\* step 10: the alerts are identified and the analysis returns
IdentifyAlerts ==
    /\ lastOp.op = "calculate_progress_metrics"
    /\ "calls" \in DOMAIN lastOp
    /\ lastOp' = [ op |-> "identify_alerts",
                   project_data |-> lastOp.project_data,
                   detected_elements |-> lastOp.detected_elements,
                   progress_metrics |-> lastOp.progress_metrics,
                   alerts |-> identify_alerts(lastOp.detected_elements,
                                              lastOp.project_data),
                   calls |-> Append(lastOp.calls, "identify_alerts") ]
    /\ UNCHANGED <<mem, now, lastSeen, inflight>>

\* Interleaved update_memory calls of concurrent analyses of project p1.  A
\* call reads the record (ProjectElementMemory.get), saves a new one if there
\* was none (line 93), changes its own object and saves it (line 154); each
\* save writes the whole record, whatever is stored by then.
ConcurrentProject == "p1"

CallKey(c) == <<ConcurrentProject, Lower(inflight[c].element_type)>>

\* get_or_create_memory up to the outcome of ProjectElementMemory.get
GetMemory(c, element_type, current_count) ==
    /\ inflight[c].pc \in {"idle", "done"}
    /\ now < MaxTime
    /\ LET stored == mem[<<ConcurrentProject, Lower(element_type)>>]
       IN inflight' = [inflight EXCEPT ![c] =
            [ pc |-> IF stored = NoRecord THEN "missing" ELSE "loaded",
              element_type |-> element_type,
              current_count |-> current_count,
              timestamp |-> now + 1,
              memory |-> stored ]]
    /\ now' = now + 1
    /\ lastOp' = [ op |-> "get_memory", caller |-> c ]
    /\ UNCHANGED <<mem, lastSeen>>

\* the except branch of get_or_create_memory: the new record is saved
CreateMemory(c) ==
    /\ inflight[c].pc = "missing"
    /\ LET memory == NewRecord(ConcurrentProject, inflight[c].element_type,
                               inflight[c].current_count, inflight[c].timestamp)
       IN /\ mem' = [mem EXCEPT ![CallKey(c)] = memory]
          /\ inflight' = [inflight EXCEPT ![c].pc = "loaded", ![c].memory = memory]
    /\ lastOp' = [ op |-> "create_memory", caller |-> c ]
    /\ UNCHANGED <<now, lastSeen>>

\* the rest of update_memory: the changes to the object and memory.save()
SaveMemory(c) ==
    /\ inflight[c].pc = "loaded"
    /\ LET updated == IF inflight[c].current_count > 0
                      THEN SeenUpdate(inflight[c].memory, inflight[c].current_count,
                                      inflight[c].timestamp)
                      ELSE NotSeenUpdate(inflight[c].memory, <<>>)
       IN /\ mem' = [mem EXCEPT ![CallKey(c)] = updated]
          /\ inflight' = [inflight EXCEPT ![c] =
                            [ pc |-> "done",
                              element_type |-> inflight[c].element_type,
                              saved |-> updated ]]
          /\ lastSeen' = IF inflight[c].current_count > 0
                         THEN [lastSeen EXCEPT ![CallKey(c)] = inflight[c].current_count]
                         ELSE lastSeen
    /\ lastOp' = [ op |-> "save_memory", caller |-> c ]
    /\ UNCHANGED now

\* a caller is about to run calculate_progress_metrics on arguments of its own
InitCalculator ==
    /\ mem = [k \in Keys |-> NoRecord]
    /\ now = 0
    /\ inflight = [c \in Callers |-> IdleCall]
    /\ lastSeen = [k \in Keys |-> 0]
    /\ \E d \in DetectionLists, adj \in AdjustedLists, e \in ExpectedLists :
          lastOp = [ op |-> "call_calculate_progress_metrics",
                     detected_elements |-> d,
                     adjusted_elements |-> adj,
                     all_elements |-> e ]

\* and runs it
CalculateProgressMetricsCall ==
    /\ lastOp.op = "call_calculate_progress_metrics"
    /\ lastOp' = [ op |-> "calculate_progress_metrics",
                   detected_elements |-> lastOp.detected_elements,
                   adjusted_elements |-> lastOp.adjusted_elements,
                   all_elements |-> lastOp.all_elements,
                   result |-> calculate_progress_metrics(
                                 lastOp.detected_elements, lastOp.all_elements,
                                 lastOp.adjusted_elements) ]
    /\ UNCHANGED <<mem, now, lastSeen, inflight>>

\* a caller is about to run validate_elements on a list of its own
InitValidator ==
    /\ mem = [k \in Keys |-> NoRecord]
    /\ now = 0
    /\ inflight = [c \in Callers |-> IdleCall]
    /\ lastSeen = [k \in Keys |-> 0]
    /\ \E d \in ValidatorLists, strict \in BOOLEAN :
          lastOp = [ op |-> "call_validate_elements",
                     detected_elements |-> d,
                     strict_mode |-> strict ]

\* and runs it
ValidateElementsCall ==
    /\ lastOp.op = "call_validate_elements"
    /\ lastOp' = [ op |-> "validate_elements",
                   detected_elements |-> lastOp.detected_elements,
                   strict_mode |-> lastOp.strict_mode,
                   outcome |-> validate_elements(lastOp.detected_elements,
                                                 lastOp.strict_mode) ]
    /\ UNCHANGED <<mem, now, lastSeen, inflight>>

\* a caller is about to run one of the three ratio computations of the
\* calculator on arguments of its own
InitRatios ==
    /\ mem = [k \in Keys |-> NoRecord]
    /\ now = 0
    /\ inflight = [c \in Callers |-> IdleCall]
    /\ lastSeen = [k \in Keys |-> 0]
    /\ \/ \E d \in RawLists, adj \in AdjustedLists, e \in ExpectedLists :
             lastOp = [ op |-> "call_calculate_progress_metrics",
                        detected_elements |-> d,
                        adjusted_elements |-> adj,
                        all_elements |-> e ]
       \/ \E d \in StatusLists :
             lastOp = [ op |-> "call_calculate_overall_progress",
                        detected_elements |-> d ]
       \/ \E a \in AnalysesLists, e \in ExpectedLists :
             lastOp = [ op |-> "call_calculate_progress_evolution",
                        analyses |-> a,
                        all_elements |-> e ]

CalculateOverallProgressCall ==
    /\ lastOp.op = "call_calculate_overall_progress"
    /\ lastOp' = [ op |-> "calculate_overall_progress",
                   detected_elements |-> lastOp.detected_elements,
                   outcome |-> calculate_overall_progress(lastOp.detected_elements) ]
    /\ UNCHANGED <<mem, now, lastSeen, inflight>>

CalculateProgressEvolutionCall ==
    /\ lastOp.op = "call_calculate_progress_evolution"
    /\ lastOp' = [ op |-> "calculate_progress_evolution",
                   analyses |-> lastOp.analyses,
                   all_elements |-> lastOp.all_elements,
                   result |-> calculate_progress_evolution(lastOp.analyses,
                                                           lastOp.all_elements) ]
    /\ UNCHANGED <<mem, now, lastSeen, inflight>>

\* a caller is about to run identify_alerts on arguments of its own
InitAlerts ==
    /\ mem = [k \in Keys |-> NoRecord]
    /\ now = 0
    /\ inflight = [c \in Callers |-> IdleCall]
    /\ lastSeen = [k \in Keys |-> 0]
    /\ \E d \in SeqsUpTo(AlertDetectedElems, MaxDetected), pd \in ProjectDatas :
          lastOp = [ op |-> "call_identify_alerts",
                     detected_elements |-> d,
                     project_data |-> pd ]

IdentifyAlertsCall ==
    /\ lastOp.op = "call_identify_alerts"
    /\ lastOp' = [ op |-> "identify_alerts",
                   detected_elements |-> lastOp.detected_elements,
                   project_data |-> lastOp.project_data,
                   result |-> identify_alerts(lastOp.detected_elements,
                                              lastOp.project_data) ]
    /\ UNCHANGED <<mem, now, lastSeen, inflight>>

\* a caller is about to classify two spellings
InitClassify ==
    /\ mem = [k \in Keys |-> NoRecord]
    /\ now = 0
    /\ inflight = [c \in Callers |-> IdleCall]
    /\ lastSeen = [k \in Keys |-> 0]
    /\ \E s1 \in ClassifySpellings, s2 \in ClassifySpellings :
          lastOp = [ op |-> "call_classify", element_types |-> <<s1, s2>> ]

ClassifyCalls ==
    /\ lastOp.op = "call_classify"
    /\ lastOp' = [ op |-> "classify",
                   element_types |-> lastOp.element_types,
                   result |-> << classify(lastOp.element_types[1]),
                                 classify(lastOp.element_types[2]) >> ]
    /\ UNCHANGED <<mem, now, lastSeen, inflight>>

\* ----------------------------------------------------------- specifications
\* sequential update_memory calls on the records of one project, and clears
Next ==
    \/ \E s \in Spellings, c \in Counts, cov \in CoveringArgs :
          UpdateMemory("p1", s, c, cov)
    \/ \E ok \in BOOLEAN, failAt \in 0..Len(TypeOrder) :
          ClearProjectMemory("p1", ok, failAt)

Spec == Init /\ [][Next]_vars

\* sequential analyses and clears of two projects
NextAnalysis ==
    \/ \E p \in Projects, d \in DetectionLists, ok \in BOOLEAN :
          ProcessAnalysis(p, d, ok)
    \/ \E p \in Projects, ok \in BOOLEAN, failAt \in 0..Len(TypeOrder) :
          ClearProjectMemory(p, ok, failAt)

SpecAnalysis == Init /\ [][NextAnalysis]_vars

\* the orchestrator's reconcile-then-compute steps on one project
NextProgress ==
    \/ \E d \in DetectionLists, ok \in BOOLEAN : Reconcile("p1", d, ok)
    \/ \E e \in ExpectedLists : CalculateProgressMetrics(e)

SpecProgress == Init /\ [][NextProgress]_vars

\* calculate_progress_metrics on any detected, adjusted and expected lists
NextCalculator == CalculateProgressMetricsCall

SpecCalculator == InitCalculator /\ [][NextCalculator]_vars

\* validate_elements on any list of well-formed elements
NextValidator == ValidateElementsCall

SpecValidator == InitValidator /\ [][NextValidator]_vars

\* sequential analyses of one project whose detections are of every lifecycle
NextLifecycles ==
    \E d \in LifecycleLists, ok \in BOOLEAN : ProcessAnalysis("p1", d, ok)

SpecLifecycles == Init /\ [][NextLifecycles]_vars

\* sequential runs of analyze_construction_image on one project
NextOrchestrator ==
    \/ \E pd \in OrchestratorProjects, d \in DetectionLists :
          MergeDetectionResults(pd, d)
    \/ \E ok \in BOOLEAN : ProcessWithMemory(ok)
    \/ ProgressMetrics
    \/ IdentifyAlerts

SpecOrchestrator == Init /\ [][NextOrchestrator]_vars

\* sequential update_memory calls on the records of one project, starting
\* with no record
NextCounters ==
    \E t \in {"Column", "column", "scaffold", "door"}, c \in Counts, cov \in CoveringArgs :
       UpdateMemoryLogged("p1", t, c, cov)

SpecCounters == Init /\ [][NextCounters]_vars

\* analyses of one project whose detections may lack element_type and whose
\* saves may raise
NextFaults ==
    \/ \E d \in MalformedLists, ok \in BOOLEAN : Reconcile("p1", d, ok)
    \/ \E d \in MalformedLists, ok \in BOOLEAN, t \in Types, site \in SaveSites :
          ProcessAnalysisSaveRaises("p1", d, ok, t, site)

SpecFaults == Init /\ [][NextFaults]_vars

\* the ratio computations of the calculator on any arguments
NextRatios ==
    \/ CalculateProgressMetricsCall
    \/ CalculateOverallProgressCall
    \/ CalculateProgressEvolutionCall

SpecRatios == InitRatios /\ [][NextRatios]_vars

\* identify_alerts on any detected elements and project data
NextAlerts == IdentifyAlertsCall

SpecAlerts == InitAlerts /\ [][NextAlerts]_vars

\* classify on any two spellings
NextClassify == ClassifyCalls

SpecClassify == InitClassify /\ [][NextClassify]_vars

\* update_memory calls of two callers on project p1, interleaved at their
\* reads and saves
NextConcurrent ==
    \/ \E c \in Callers, s \in {"Column", "wall"}, n \in Counts : GetMemory(c, s, n)
    \/ \E c \in Callers : CreateMemory(c)
    \/ \E c \in Callers : SaveMemory(c)

SpecConcurrent == Init /\ [][NextConcurrent]_vars

\* ------------------------------------------------------------ properties
\* the key of the record an update_memory call works on
OpKey(op) == <<op.project_id, Lower(op.element_type)>>

\* C1: across the update_memory calls on one record, max_count_seen after a
\* call is at least its value after the previous call.
C1_MaxCountMonotone ==
    [][\A k \in Keys :
          (mem[k] # NoRecord /\ mem'[k] # NoRecord)
             => mem'[k].max_count_seen >= mem[k].max_count_seen]_vars

\* a record was updated with a smaller count than it had seen before
C1_Witness ==
    /\ lastOp.op = "update_memory"
    /\ lastOp.current_count > 0
    /\ lastOp.result.max_count_seen > lastOp.current_count
    /\ mem[OpKey(lastOp)].times_detected >= 3

\* C2: update_memory with count 0 on a permanent record whose current_count
\* is c leaves current_count = c, sets the status hidden and returns
\* contributes_to_progress = TRUE and effective_count = c, however many
\* zero-count updates came before.
C2_HiddenPermanentKeepsCount ==
    [][\A k \in Keys :
          ( /\ lastOp'.op = "update_memory"
            /\ lastOp'.current_count = 0
            /\ OpKey(lastOp') = k
            /\ mem[k] # NoRecord
            /\ mem[k].lifecycle = PERMANENT )
          => ( /\ mem'[k].current_count = mem[k].current_count
               /\ mem'[k].current_status = HIDDEN
               /\ lastOp'.result.contributes_to_progress
               /\ lastOp'.result.effective_count = mem[k].current_count )]_vars

\* a permanent record with a count above zero has been hidden twice in a row
C2_Witness ==
    /\ lastOp.op = "update_memory"
    /\ lastOp.current_count = 0
    /\ lastOp.result.lifecycle = PERMANENT
    /\ lastOp.result.previous_status = HIDDEN
    /\ lastOp.result.effective_count > 0
    /\ mem[OpKey(lastOp)].times_hidden >= 2

\* C3: update_memory with count 0 on a temporary record sets current_count
\* to 0 and the status to removed and returns contributes_to_progress = FALSE,
\* whatever the count was before.
C3_TemporaryRemoved ==
    ( /\ lastOp.op = "update_memory"
      /\ lastOp.current_count = 0
      /\ lastOp.result.lifecycle = TEMPORARY )
    => ( /\ mem[OpKey(lastOp)].current_count = 0
         /\ mem[OpKey(lastOp)].current_status = REMOVED
         /\ lastOp.result.effective_count = 0
         /\ lastOp.result.contributes_to_progress = FALSE )

\* a temporary record that had a count above zero was updated with count 0
C3_Witness ==
    /\ lastOp.op = "update_memory"
    /\ lastOp.current_count = 0
    /\ lastOp.result.lifecycle = TEMPORARY
    /\ lastOp.result.previous_count > 0
    /\ lastOp.result.current_status = REMOVED

\* the element types of a detection list, as the grouping loop keys them
DetectedTypes(detected_elements) ==
    {Lower(Get(detected_elements[i], "element_type", "")) :
        i \in 1..Len(detected_elements)}

\* C4: when the memory load succeeds and a permanent type last detected with
\* visible count c > 0 is omitted from the detections, the analysis returns
\* an adjusted element for it with count_visible 0, status hidden and
\* effective_count c; this holds at every later analysis until a clear.
C4_HiddenPermanentReported ==
    [][\A t \in Types :
          ( /\ lastOp'.op = "process_analysis_with_memory"
            /\ lastOp'.queryOk
            /\ mem[<<lastOp'.project_id, t>>] # NoRecord
            /\ mem[<<lastOp'.project_id, t>>].lifecycle = PERMANENT
            /\ lastSeen[<<lastOp'.project_id, t>>] > 0
            /\ t \notin DetectedTypes(lastOp'.detected_elements) )
          => \E i \in 1..Len(lastOp'.result.adjusted_elements) :
                lastOp'.result.adjusted_elements[i] =
                   [ element_type |-> t,
                     count_visible |-> 0,
                     effective_count |-> lastSeen[<<lastOp'.project_id, t>>],
                     status |-> HIDDEN,
                     contributes_to_progress |-> TRUE ]]_vars

\* an analysis omitted a permanent type for the second time and still
\* reported its count
C4_Witness ==
    /\ lastOp.op = "process_analysis_with_memory"
    /\ lastOp.queryOk
    /\ \E t \in Types :
          /\ t \notin DetectedTypes(lastOp.detected_elements)
          /\ mem[<<lastOp.project_id, t>>] # NoRecord
          /\ mem[<<lastOp.project_id, t>>].lifecycle = PERMANENT
          /\ mem[<<lastOp.project_id, t>>].times_hidden >= 2
          /\ lastSeen[<<lastOp.project_id, t>>] > 1
          /\ \E i \in 1..Len(lastOp.result.adjusted_elements) :
                /\ lastOp.result.adjusted_elements[i].element_type = t
                /\ lastOp.result.adjusted_elements[i].effective_count
                      = lastSeen[<<lastOp.project_id, t>>]

\* C5: the lifecycle of a record is classify(element_type) when the record
\* is created and no later update_memory call changes it.
C5_LifecycleImmutable ==
    [][\A k \in Keys :
          mem'[k] # NoRecord
             => IF mem[k] # NoRecord
                THEN mem'[k].lifecycle = mem[k].lifecycle
                ELSE /\ lastOp'.op = "update_memory"
                     /\ OpKey(lastOp') = k
                     /\ mem'[k].lifecycle = classify(lastOp'.element_type)]_vars

\* a record of a mixed-case type was created, seen again and then not seen
C5_Witness ==
    /\ lastOp.op = "update_memory"
    /\ lastOp.element_type = "Column"
    /\ lastOp.current_count = 0
    /\ mem[OpKey(lastOp)].lifecycle = PERMANENT
    /\ mem[OpKey(lastOp)].times_detected >= 2
    /\ mem[OpKey(lastOp)].times_hidden >= 1

\* C6: a record whose status is removed has lifecycle temporary and
\* current_count 0.
C6_RemovedIsTemporaryZero ==
    \A k \in Keys :
       (mem[k] # NoRecord /\ mem[k].current_status = REMOVED)
          => (mem[k].lifecycle = TEMPORARY /\ mem[k].current_count = 0)

\* a record that had been seen with a count above zero is removed
C6_Witness ==
    \E k \in Keys :
       /\ mem[k] # NoRecord
       /\ mem[k].current_status = REMOVED
       /\ mem[k].max_count_seen > 0

\* C7 as stated: a hidden record has lifecycle permanent or unknown, and the
\* latest update_memory call on it had visible count 0.
C7_HiddenOnlyPermanentOrUnknown ==
    [][\A k \in Keys :
          (mem'[k] # NoRecord /\ mem'[k].current_status = HIDDEN)
             => /\ mem'[k].lifecycle \in {PERMANENT, UNKNOWN}
                /\ \/ mem'[k] = mem[k]
                   \/ /\ lastOp'.op = "update_memory"
                      /\ OpKey(lastOp') = k
                      /\ lastOp'.current_count = 0]_vars

\* C7 amended: a hidden record has lifecycle permanent, finishing or unknown
\* (never temporary), and the latest update_memory call on it had visible
\* count 0.
C7_HiddenNeverTemporary ==
    [][\A k \in Keys :
          (mem'[k] # NoRecord /\ mem'[k].current_status = HIDDEN)
             => /\ mem'[k].lifecycle \in {PERMANENT, FINISHING, UNKNOWN}
                /\ \/ mem'[k] = mem[k]
                   \/ /\ lastOp'.op = "update_memory"
                      /\ OpKey(lastOp') = k
                      /\ lastOp'.current_count = 0]_vars

\* a finishing record that had been seen is hidden
C7_Witness ==
    /\ lastOp.op = "update_memory"
    /\ lastOp.current_count = 0
    /\ mem[OpKey(lastOp)].lifecycle = FINISHING
    /\ mem[OpKey(lastOp)].current_status = HIDDEN
    /\ mem[OpKey(lastOp)].max_count_seen > 0

\* the keys whose record a step deletes
Deleted == {k \in Keys : mem[k] # NoRecord /\ mem'[k] = NoRecord}

\* C8: only clear_project_memory deletes records: an analysis deletes none,
\* and clear_project_memory(p) deletes only records of project p and returns
\* the number of records it deleted, also when a delete fails part-way.
C8_OnlyClearDeletes ==
    [][ /\ Deleted # {} => lastOp'.op = "clear_project_memory"
        /\ lastOp'.op = "clear_project_memory"
              => /\ \A k \in Deleted : k[1] = lastOp'.project_id
                 /\ lastOp'.result = Cardinality(Deleted) ]_vars

\* a clear deleted one record of its project, then failed and left another
\* one, while the other project has a record too
C8_Witness ==
    /\ lastOp.op = "clear_project_memory"
    /\ lastOp.result = 1
    /\ \E t \in Types : mem[<<lastOp.project_id, t>>] # NoRecord
    /\ \E k \in Keys : k[1] # lastOp.project_id /\ mem[k] # NoRecord

RECURSIVE SumContributing(_, _)
SumContributing(elements, i) ==
    IF i > Len(elements) THEN 0
    ELSE (IF elements[i].contributes_to_progress
          THEN elements[i].effective_count ELSE 0)
         + SumContributing(elements, i + 1)

\* C9: with a BIM model, total_built computed from the adjusted elements of
\* an analysis is the sum of effective_count over the adjusted elements whose
\* contributes_to_progress is TRUE (the others add nothing).
C9_TotalBuiltCountsContributing ==
    ( /\ lastOp.op = "calculate_progress_metrics"
      /\ lastOp.all_elements # <<>> )
    => lastOp.result.total_built = SumContributing(lastOp.adjusted_elements, 1)

\* the progress was computed from a removed temporary element that had been
\* seen before and a hidden permanent element that still counts
C9_Witness ==
    /\ lastOp.op = "calculate_progress_metrics"
    /\ lastOp.all_elements # <<>>
    /\ \E i \in 1..Len(lastOp.adjusted_elements) :
          /\ ~lastOp.adjusted_elements[i].contributes_to_progress
          /\ mem[<<"p1", lastOp.adjusted_elements[i].element_type>>].max_count_seen > 0
    /\ \E i \in 1..Len(lastOp.adjusted_elements) :
          /\ lastOp.adjusted_elements[i].status = HIDDEN
          /\ lastOp.adjusted_elements[i].effective_count > 0
    /\ lastOp.result.total_built > 0

\* C10: overall_progress returned by calculate_progress_metrics lies between
\* 0 and 100 (in hundredths of a percent: 0 and 10000).
C10_OverallProgressInRange ==
    lastOp.op = "calculate_progress_metrics"
       => (lastOp.result.overall_progress >= 0
           /\ lastOp.result.overall_progress <= 10000)

\* the elements a calculate_progress_metrics call reports on
ElementsToUse(op) ==
    IF op.adjusted_elements # <<>> THEN op.adjusted_elements ELSE op.detected_elements

\* the lower-cased types of the expected elements
ExpectedTypes(all_elements) ==
    {ElemType(all_elements[i]) : i \in 1..Len(all_elements)}

\* the built count of the elements whose type is an expected type
RECURSIVE MappedBuilt(_, _, _)
MappedBuilt(elements, expected_types, i) ==
    IF i > Len(elements) THEN 0
    ELSE (IF ElemType(elements[i]) \in expected_types
          THEN Get(elements[i], "effective_count", 1) ELSE 0)
         + MappedBuilt(elements, expected_types, i + 1)

\* C11: with a non-empty expected list, calculate_progress_metrics reports
\* progress_mode category_based exactly when total_built is positive and the
\* built count mapped to expected types is at least half of total_built
\* (exactly half included), and weak_matching otherwise, total_built = 0
\* included.
C11_ModeByMappingRatio ==
    (lastOp.op = "calculate_progress_metrics" /\ lastOp.all_elements # <<>>)
    => LET total_built == lastOp.result.total_built
           mapped == MappedBuilt(ElementsToUse(lastOp),
                                 ExpectedTypes(lastOp.all_elements), 1)
       IN /\ total_built = SumEffective(ElementsToUse(lastOp), 1)
          /\ lastOp.result.progress_mode =
                IF total_built > 0 /\ 2 * mapped >= total_built
                THEN "category_based" ELSE "weak_matching"

\* a report whose mapping ratio is exactly 0.5 is category_based
C11_Witness ==
    /\ lastOp.op = "calculate_progress_metrics"
    /\ lastOp.all_elements # <<>>
    /\ lastOp.result.total_built > 0
    /\ 2 * MappedBuilt(ElementsToUse(lastOp), ExpectedTypes(lastOp.all_elements), 1)
         = lastOp.result.total_built
    /\ lastOp.result.progress_mode = "category_based"

\* C12: a weak_matching report has exactly the key elementos_detectados in
\* progress_by_category, with built = total_built and expected =
\* total_expected, and overall_progress = total_built / total_expected * 100;
\* a category_based report has exactly one entry per expected type and not
\* the key elementos_detectados.
C12_CategoriesByMode ==
    (lastOp.op = "calculate_progress_metrics" /\ lastOp.all_elements # <<>>)
    => LET r == lastOp.result
           cat == r.progress_by_category
       IN /\ r.progress_mode = "weak_matching" =>
                /\ DOMAIN cat = {"elementos_detectados"}
                /\ cat["elementos_detectados"].built = r.total_built
                /\ cat["elementos_detectados"].expected = r.total_expected
                /\ r.total_expected = Len(lastOp.all_elements)
                /\ r.overall_progress
                     = RoundDiv(r.total_built * 10000, r.total_expected)
          /\ r.progress_mode = "category_based" =>
                /\ DOMAIN cat = ExpectedTypes(lastOp.all_elements)
                /\ "elementos_detectados" \notin DOMAIN cat

\* a weak_matching report on elements some of which are of an expected type
C12_Witness ==
    /\ lastOp.op = "calculate_progress_metrics"
    /\ lastOp.all_elements # <<>>
    /\ lastOp.result.progress_mode = "weak_matching"
    /\ MappedBuilt(ElementsToUse(lastOp), ExpectedTypes(lastOp.all_elements), 1) > 0
    /\ DOMAIN lastOp.result.progress_by_category = {"elementos_detectados"}

\* C13: with an empty expected list, calculate_progress_metrics reports
\* progress_mode no_bim and overall_progress 100.0 when the detected list is
\* non-empty and 0.0 when it is empty, whatever adjusted_elements holds.
C13_NoBimByDetected ==
    (lastOp.op = "calculate_progress_metrics" /\ lastOp.all_elements = <<>>)
    => /\ lastOp.result.progress_mode = "no_bim"
       /\ lastOp.result.overall_progress
            = IF lastOp.detected_elements # <<>> THEN 10000 ELSE 0

\* no expected and no detected elements, but adjusted ones: 0.0
C13_Witness ==
    /\ lastOp.op = "calculate_progress_metrics"
    /\ lastOp.all_elements = <<>>
    /\ lastOp.detected_elements = <<>>
    /\ lastOp.adjusted_elements # <<>>
    /\ lastOp.result.overall_progress = 0

\* the construction-sequence violation of the claims: a type with a completed
\* element while a detected type earlier in the sequence has not_started
\* elements only
SequenceViolated(elements) ==
    \E t \in TypesDetected(elements), e \in DOMAIN CONSTRUCTION_SEQUENCE :
       /\ "completed" \in StatusesOf(elements, t)
       /\ CONSTRUCTION_SEQUENCE[e] < Get(CONSTRUCTION_SEQUENCE, t, 999)
       /\ StatusesOf(elements, e) = {"not_started"}

\* C14: validate_elements never raises on well-formed detected elements; on
\* a construction-sequence violation it returns a HIGH invalid_sequence issue
\* and a positive confidence penalty.
C14_ValidateNeverRaises ==
    lastOp.op = "validate_elements"
    => /\ ~lastOp.outcome.raised
       /\ SequenceViolated(lastOp.detected_elements) =>
             /\ \E i \in 1..Len(lastOp.outcome.result.issues) :
                   /\ lastOp.outcome.result.issues[i].rule = "invalid_sequence"
                   /\ lastOp.outcome.result.issues[i].severity = "HIGH"
             /\ lastOp.outcome.result.confidence_penalty > 0

\* the dependent types that are detected with none of their supports
Unsupported(elements) ==
    {t \in DOMAIN STRUCTURAL_DEPENDENCIES :
        /\ t \in TypesDetected(elements)
        /\ \A n \in 1..Len(STRUCTURAL_DEPENDENCIES[t]) :
              STRUCTURAL_DEPENDENCIES[t][n] \notin TypesDetected(elements)}

\* the HIGH issues of a result that name a type and flag a hallucination
FlaggedFor(result, t) ==
    {i \in 1..Len(result.issues) :
        /\ result.issues[i].severity = "HIGH"
        /\ Get(result.issues[i], "element_type", "") = t
        /\ Get(result.issues[i], "likely_hallucination", FALSE)}

\* what C15 says of a returned result
C15_Reported(elements, result) ==
    /\ \A t \in Unsupported(elements) :
          /\ Cardinality(FlaggedFor(result, t)) = 1
          /\ ~result.is_plausible
    /\ result.is_plausible
         <=> (\A i \in 1..Len(result.issues) : result.issues[i].severity # "HIGH")

\* C15: for each dependent type (beam, slab) detected with none of its
\* supports, validate_elements reports exactly one HIGH issue for that type
\* with likely_hallucination true, and is_plausible false; is_plausible is
\* true exactly when no issue is HIGH.
C15_UnsupportedReported ==
    lastOp.op = "validate_elements"
    => /\ Unsupported(lastOp.detected_elements) # {} => ~lastOp.outcome.raised
       /\ ~lastOp.outcome.raised =>
             C15_Reported(lastOp.detected_elements, lastOp.outcome.result)

\* what C16 says of a returned result
C16_Partitioned(elements, result) ==
    LET IsSuspicious(e) ==
            /\ FlaggedFor(result, Lower(e.element_type)) # {}
            /\ e.confidence \in {"MEDIUM", "LOW"}
        IsNot(e) == ~IsSuspicious(e)
    IN /\ result.suspicious_elements = SelectSeq(elements, IsSuspicious)
       /\ result.validated_elements = SelectSeq(elements, IsNot)
       /\ \A n \in 1..Len(result.suspicious_elements) :
             result.suspicious_elements[n].confidence # "HIGH"

\* C16: validated_elements and suspicious_elements partition the detected
\* list: an element is suspicious exactly when its type is named by a HIGH
\* issue flagged likely_hallucination and its confidence is MEDIUM or LOW; a
\* HIGH-confidence element is never suspicious.
C16_SuspiciousPartition ==
    lastOp.op = "validate_elements"
    => /\ ~lastOp.outcome.raised
       /\ C16_Partitioned(lastOp.detected_elements, lastOp.outcome.result)

\* C17: the confidence_penalty validate_elements computes is
\* min(0.15 * #HIGH + 0.05 * #MEDIUM, 0.5) over its issues: never above 0.5,
\* 0 without issues, and it is the value a returned result carries.
C17_PenaltyFormula ==
    lastOp.op = "validate_elements"
    => LET o == lastOp.outcome
           issues == o.locals.issues
           high == Cardinality({i \in 1..Len(issues) : issues[i].severity = "HIGH"})
           medium == Cardinality({i \in 1..Len(issues) : issues[i].severity = "MEDIUM"})
           penalty == o.locals.confidence_penalty
       IN /\ penalty = (IF 15 * high + 5 * medium < 50
                        THEN 15 * high + 5 * medium ELSE 50)
          /\ penalty <= 50
          /\ issues = <<>> => penalty = 0
          /\ ~o.raised => /\ o.result.issues = issues
                          /\ o.result.confidence_penalty = penalty

\* a returned result with one HIGH issue and the penalty 0.15
C17_Witness ==
    /\ lastOp.op = "validate_elements"
    /\ ~lastOp.outcome.raised
    /\ Len(lastOp.outcome.result.issues) = 1
    /\ lastOp.outcome.result.issues[1].severity = "HIGH"
    /\ lastOp.outcome.result.confidence_penalty = 15

\* C18: when the project-wide query fails, process_analysis_with_memory
\* returns adjusted elements for exactly the detected types, one each, and
\* leaves the record of every type that was not detected as it was.
C18_FailedQueryDetectedOnly ==
    [][( /\ lastOp'.op = "process_analysis_with_memory"
         /\ ~lastOp'.queryOk )
       => LET adjusted == lastOp'.result.adjusted_elements
              detected == DetectedTypes(lastOp'.detected_elements)
          IN /\ {adjusted[i].element_type : i \in 1..Len(adjusted)} = detected
             /\ Len(adjusted) = Cardinality(detected)
             /\ Len(lastOp'.result.memory_updates) = Cardinality(detected)
             /\ \A k \in Keys :
                   (k[1] # lastOp'.project_id \/ k[2] \notin detected)
                   => mem'[k] = mem[k]]_vars

\* an analysis whose query failed left the visible record of a type it did
\* not detect untouched
C18_Witness ==
    /\ lastOp.op = "process_analysis_with_memory"
    /\ ~lastOp.queryOk
    /\ lastOp.detected_elements # <<>>
    /\ \E t \in Types \ DetectedTypes(lastOp.detected_elements) :
          /\ mem[<<lastOp.project_id, t>>] # NoRecord
          /\ mem[<<lastOp.project_id, t>>].current_status = VISIBLE
          /\ mem[<<lastOp.project_id, t>>].times_hidden = 0

\* C19: when the save of one type's record fails during
\* process_analysis_with_memory, the call still returns and the remaining
\* types of the batch, detected or remembered, are still updated.
C19_SaveFailureIsolated ==
    (lastOp.op = "process_analysis_with_memory" /\ "failed_type" \in DOMAIN lastOp)
    => /\ ~lastOp.raised
       /\ \A t \in DetectedTypes(lastOp.detected_elements) \ {lastOp.failed_type} :
             SeqContains(lastOp.processed, t)

\* C20: a detection that lacks element_type is not processed under a default
\* type: the analysis is not aborted by the save of a record of type "", no
\* record of type "" exists and no adjusted element of type "" is returned.
C20_MissingTypeRejected ==
    ( /\ lastOp.op = "process_analysis_with_memory"
      /\ \E i \in 1..Len(lastOp.detected_elements) :
            "element_type" \notin DOMAIN lastOp.detected_elements[i] )
    => /\ lastOp.raised => lastOp.failed_type # ""
       /\ mem[<<lastOp.project_id, "">>] = NoRecord
       /\ ~lastOp.raised =>
             \A i \in 1..Len(lastOp.result.adjusted_elements) :
                lastOp.result.adjusted_elements[i].element_type # ""

\* C21: calculate_progress_metrics, calculate_overall_progress and
\* calculate_progress_evolution return on every input, no division raising:
\* mapping_ratio is 0 when total_built is 0, progress_percent is 0 for a
\* category whose expected count is 0, and empty inputs give 0.0.
C21_NoZeroDivision ==
    /\ lastOp.op = "calculate_progress_metrics" =>
          /\ "raised" \notin DOMAIN lastOp.result
          /\ lastOp.all_elements # <<>> =>
                /\ lastOp.result.total_built = 0 => lastOp.result.mapping_ratio = 0
                /\ \A c \in DOMAIN lastOp.result.progress_by_category :
                      lastOp.result.progress_by_category[c].expected = 0
                      => lastOp.result.progress_by_category[c].progress_percent = 0
          /\ (lastOp.detected_elements = <<>> /\ lastOp.adjusted_elements = <<>>)
                => lastOp.result.overall_progress = 0
    /\ lastOp.op = "calculate_overall_progress" =>
          /\ ~lastOp.outcome.raised
          /\ lastOp.detected_elements = <<>> => lastOp.outcome.value = 0
    /\ lastOp.op = "calculate_progress_evolution" =>
          /\ "raised" \notin DOMAIN lastOp.result
          /\ lastOp.analyses = <<>> =>
                /\ lastOp.result.current_progress = 0
                /\ lastOp.result.progress_rate = 0

\* a report on expected elements and adjusted elements none of which counts
C21_Witness ==
    /\ lastOp.op = "calculate_progress_metrics"
    /\ lastOp.all_elements # <<>>
    /\ lastOp.adjusted_elements # <<>>
    /\ lastOp.result.total_built = 0
    /\ lastOp.result.mapping_ratio = 0
    /\ lastOp.result.progress_mode = "weak_matching"

\* C22: identify_alerts returns one "not identified" message for each
\* expected element whose id is not a detected id, in the order of the
\* expected elements, followed by one deviation message for each detected
\* element with a non-empty deviation, in the order of the detected elements.
C22_MissingThenDeviations ==
    lastOp.op = "identify_alerts"
    => LET expected == Get(lastOp.project_data, "elements", <<>>)
           detected == lastOp.detected_elements
           HasId(id) == \E n \in 1..Len(detected) :
                           "element_id" \in DOMAIN detected[n]
                           /\ detected[n].element_id = id
           missing == SelectSeq(expected, LAMBDA e : ~HasId(e.element_id))
           deviating == SelectSeq(detected,
                           LAMBDA e : "deviation" \in DOMAIN e /\ e.deviation # "")
           alerts == lastOp.result
       IN /\ Len(alerts) = Len(missing) + Len(deviating)
          /\ \A i \in 1..Len(missing) :
                /\ alerts[i][3] = "nao identificado na imagem"
                /\ alerts[i][1] = missing[i].element_type
                /\ alerts[i][2] = (IF "name" \in DOMAIN missing[i]
                                   THEN missing[i].name ELSE "sem nome")
          /\ \A j \in 1..Len(deviating) :
                alerts[Len(missing) + j]
                   = <<"Desvio em", deviating[j].element_type, deviating[j].deviation>>

\* an expected element was missing and a detected element deviated
C22_Witness ==
    /\ lastOp.op = "identify_alerts"
    /\ Len(lastOp.result) >= 3
    /\ lastOp.result[1][3] = "nao identificado na imagem"
    /\ lastOp.result[Len(lastOp.result)][1] = "Desvio em"
    /\ \E n \in 1..Len(lastOp.detected_elements) :
          Get(lastOp.detected_elements[n], "deviation", "x") = ""

\* the lower-case member of the family of a spelling
Folded(s) ==
    CHOOSE w \in ClassifySpellings :
       /\ \E f \in CaseFamilies : s \in f /\ w \in f
       /\ w \in {"column", "beam", "scaffold", "door", "crane", "wall", ""}

\* C23: classify is total and case-insensitive: two spellings that differ
\* only in letter case get the same lifecycle; the three membership sets are
\* disjoint, a type of one set gets that set's lifecycle and a type of none
\* gets unknown.
C23_ClassifyCaseInsensitive ==
    /\ permanent_types \cap temporary_types = {}
    /\ permanent_types \cap finishing_types = {}
    /\ temporary_types \cap finishing_types = {}
    /\ lastOp.op = "classify" =>
          /\ (\E f \in CaseFamilies : lastOp.element_types[1] \in f
                                       /\ lastOp.element_types[2] \in f)
                => lastOp.result[1] = lastOp.result[2]
          /\ \A n \in 1..2 :
                LET w == Folded(lastOp.element_types[n])
                IN lastOp.result[n] =
                     (CASE w \in permanent_types -> PERMANENT
                        [] w \in temporary_types -> TEMPORARY
                        [] w \in finishing_types -> FINISHING
                        [] OTHER -> UNKNOWN)

\* two different spellings of a temporary type got the lifecycle temporary
C23_Witness ==
    /\ lastOp.op = "classify"
    /\ lastOp.element_types = <<"SCAFFOLD", "scaffold">>
    /\ lastOp.result = <<TEMPORARY, TEMPORARY>>

\* the sum of the count_visible values of the entries of one type, an entry
\* without count_visible counting 1
RECURSIVE SumVisible(_, _, _)
SumVisible(detected_elements, t, i) ==
    IF i > Len(detected_elements) THEN 0
    ELSE (IF Lower(Get(detected_elements[i], "element_type", "")) = t
          THEN Get(detected_elements[i], "count_visible", 1) ELSE 0)
         + SumVisible(detected_elements, t, i + 1)

\* C24: process_analysis_with_memory passes to update_memory, for each
\* detected type, the sum of the count_visible values of the entries of that
\* type.
C24_DuplicateCountsSummed ==
    (lastOp.op = "process_analysis_with_memory" /\ ~lastOp.raised)
    => \A i \in 1..Len(lastOp.result.memory_updates) :
          LET u == lastOp.result.memory_updates[i]
          IN u.element_type \in DetectedTypes(lastOp.detected_elements)
             => u.current_count_visible
                  = SumVisible(lastOp.detected_elements, u.element_type, 1)

\* caller c writes the record of key k in this step from a record object that
\* is no longer the stored one
StaleWrite(c, k) ==
    /\ inflight[c].pc \in {"missing", "loaded"}
    /\ inflight'[c].pc # inflight[c].pc
    /\ CallKey(c) = k
    /\ inflight[c].memory # mem[k]

\* C25: nothing serializes the calls on one project: each call writes back
\* what it computed from the record it read, so the stored max_count_seen or
\* times_detected of a record goes down in a step exactly because a caller
\* saves over a record that changed after the caller read it.
C25_LostUpdateByStaleWrite ==
    [][\A k \in Keys :
          ( /\ mem[k] # NoRecord
            /\ mem'[k] # NoRecord
            /\ \/ mem'[k].max_count_seen < mem[k].max_count_seen
               \/ mem'[k].times_detected < mem[k].times_detected )
          => \E c \in Callers : StaleWrite(c, k)]_vars

\* one caller's update is lost: the stored max_count_seen and times_detected
\* are lower than the ones that caller saved
C25_Witness ==
    \E c \in Callers :
       /\ inflight[c].pc = "done"
       /\ mem[CallKey(c)] # NoRecord
       /\ inflight[c].saved.max_count_seen > mem[CallKey(c)].max_count_seen
       /\ inflight[c].saved.times_detected > mem[CallKey(c)].times_detected

\* C26: update_memory with a count n > 0 on a record in any status sets the
\* status visible, current_count to n, last_seen_at to the timestamp of the
\* call and max_count_seen to max(previous max_count_seen, n), and returns
\* contributes_to_progress = TRUE.
C26_SeenAgainVisible ==
    [][( /\ lastOp'.op = "update_memory"
         /\ lastOp'.current_count > 0
         /\ mem[OpKey(lastOp')] # NoRecord )
       => LET before == mem[OpKey(lastOp')]
              after == mem'[OpKey(lastOp')]
              n == lastOp'.current_count
          IN /\ after.current_status = VISIBLE
             /\ after.current_count = n
             /\ after.last_seen_at = now'
             /\ after.max_count_seen
                  = (IF before.max_count_seen >= n THEN before.max_count_seen ELSE n)
             /\ lastOp'.result.contributes_to_progress
             /\ lastOp'.result.current_status = VISIBLE
             /\ lastOp'.result.effective_count = n]_vars

\* a removed temporary element was seen again and counts again
C26_Witness ==
    /\ lastOp.op = "update_memory"
    /\ lastOp.current_count > 0
    /\ lastOp.result.previous_status = REMOVED
    /\ lastOp.result.lifecycle = TEMPORARY
    /\ lastOp.result.contributes_to_progress
    /\ mem[OpKey(lastOp)].current_status = VISIBLE
    /\ mem[OpKey(lastOp)].current_count = lastOp.current_count

\* C27: when a type known to the loaded memory is absent from an analysis,
\* a permanent record gets confidence_level high exactly when a coverer type
\* is among the detections of the round and medium otherwise, and a
\* finishing or unknown record gets low whatever was detected.
C27_ConfidenceByCoverers ==
    [][( /\ lastOp'.op = "process_analysis_with_memory"
         /\ lastOp'.queryOk )
       => LET det == lastOp'.detected_elements
              covererSeen == \E i \in 1..Len(det) :
                                Lower(Get(det[i], "element_type", "")) \in COVERERS
          IN \A t \in Types \ DetectedTypes(det) :
                LET before == mem[<<lastOp'.project_id, t>>]
                    after == mem'[<<lastOp'.project_id, t>>]
                IN before # NoRecord
                   => /\ before.lifecycle = PERMANENT
                         => after.confidence_level
                              = (IF covererSeen THEN "high" ELSE "medium")
                      /\ before.lifecycle \in {FINISHING, UNKNOWN}
                         => after.confidence_level = "low"]_vars

\* an analysis that detected only a wall left the remembered column with high
\* confidence and the remembered door with low confidence
C27_Witness ==
    /\ lastOp.op = "process_analysis_with_memory"
    /\ lastOp.queryOk
    /\ DetectedTypes(lastOp.detected_elements) = {"wall"}
    /\ mem[<<"p1", "column">>] # NoRecord
    /\ mem[<<"p1", "column">>].current_status = HIDDEN
    /\ mem[<<"p1", "column">>].confidence_level = "high"
    /\ mem[<<"p1", "door">>] # NoRecord
    /\ mem[<<"p1", "door">>].confidence_level = "low"

\* position of the first occurrence of a call in the calls of an analysis
\* (0 when the call was not made)
FirstCall(calls, name) ==
    IF \E i \in 1..Len(calls) : calls[i] = name
    THEN CHOOSE i \in 1..Len(calls) :
            calls[i] = name /\ \A j \in 1..(i - 1) : calls[j] # name
    ELSE 0

\* C28: in each analysis run by analyze_construction_image, the geometric
\* validation of the detected elements happens before
\* process_analysis_with_memory is called, and the memory reconciliation
\* happens before calculate_progress_metrics.
C28_ValidateReconcileCompute ==
    "calls" \in DOMAIN lastOp
    => /\ FirstCall(lastOp.calls, "process_analysis_with_memory") > 0
          => /\ FirstCall(lastOp.calls, "validate_elements") > 0
             /\ FirstCall(lastOp.calls, "validate_elements")
                  < FirstCall(lastOp.calls, "process_analysis_with_memory")
       /\ FirstCall(lastOp.calls, "calculate_progress_metrics") > 0
          => /\ FirstCall(lastOp.calls, "process_analysis_with_memory") > 0
             /\ FirstCall(lastOp.calls, "process_analysis_with_memory")
                  < FirstCall(lastOp.calls, "calculate_progress_metrics")

\* C29: in every state reachable by sequential update_memory calls with
\* non-negative counts, every record has 0 <= current_count <= max_count_seen.
C29_CountWithinMax ==
    \A k \in Keys :
       mem[k] # NoRecord
       => /\ 0 <= mem[k].current_count
          /\ mem[k].current_count <= mem[k].max_count_seen

\* a record seen with a count below its maximum, after having been hidden
C29_Witness ==
    /\ lastOp.op = "update_memory"
    /\ lastOp.current_count > 0
    /\ mem[OpKey(lastOp)].current_count = lastOp.current_count
    /\ mem[OpKey(lastOp)].current_count < mem[OpKey(lastOp)].max_count_seen
    /\ mem[OpKey(lastOp)].times_hidden > 0

\* number of logged update_memory calls on a type whose count was (seen) or
\* was not (~seen) greater than 0
CallsOn(log, element_type, seen) ==
    Cardinality({i \in 1..Len(log) :
                    /\ log[i].element_type = element_type
                    /\ (log[i].current_count > 0) = seen})

\* C30: after any sequence of sequential update_memory calls on a key that
\* starts with no record, times_detected equals the number of calls whose
\* count was greater than 0 and times_hidden equals the number of calls whose
\* count was 0.
C30_CountersCountCalls ==
    "log" \in DOMAIN lastOp
    => \A t \in Types :
          mem[<<"p1", t>>] # NoRecord
          => /\ mem[<<"p1", t>>].times_detected = CallsOn(lastOp.log, t, TRUE)
             /\ mem[<<"p1", t>>].times_hidden = CallsOn(lastOp.log, t, FALSE)

====
